---- MODULE Spec2Model ----
(***************************************************************************)
(* Model of the two AI route handlers of ai-todo-manager                   *)
(*   POST /api/ai/generate-todo   (validateInput, preprocessInput,         *)
(*                                 postprocessTodo, POST)                  *)
(*   POST /api/ai/analyze-todos   (POST)                                   *)
(*                                                                         *)
(* JavaScript strings are kept in run-length form: a text is a sequence of *)
(* runs [ch, n] (n copies of the character ch), adjacent runs having       *)
(* different characters.  This keeps String.length exact for texts of 500  *)
(* and 501 characters.  The characters are                                 *)
(*   "a"  a Latin letter (matches [a-zA-Z0-9])                             *)
(*   "h"  a Hangul syllable (matches the range U+AC00..U+D7A3)             *)
(*   "!"  a printable character that is neither (punctuation, emoji)       *)
(*   "."  the full stop of the '...' suffix                                *)
(*   " ", "\t", "\n"  white space (all three match \s and are trimmed)     *)
(***************************************************************************)
EXTENDS Integers, Sequences, FiniteSets, TLC

VARIABLES
    \* ---- pure text functions (validateInput / preprocessInput) ----
    txtIn,        \* the value passed as `text`
    txtPhase,     \* "input" | "validated" | "normalized" | "renormalized"
    txtValid,     \* result of validateInput(txtIn)
    txtOut,       \* preprocessInput(txtIn)
    txtOut2,      \* preprocessInput(preprocessInput(txtIn))
    \* ---- environment of the server process ----
    tzOffset,     \* time zone of the process that runs the code (server or
                  \* browser), minutes east of UTC
    \* ---- postprocessTodo ----
    repRaw,       \* the object handed to postprocessTodo
    repToday,     \* the currentDate argument (a day number)
    repPhase,     \* "raw" | "repaired"
    repOut,       \* postprocessTodo(repRaw, repToday)
    \* ---- one request to a route handler ----
    apiKey,       \* GOOGLE_GENERATIVE_AI_API_KEY is set
    session,      \* the request carries the cookies of a signed-in session
    now,          \* the instant read by new Date(), minutes since the epoch
    endpoint,     \* "none" | "generate" | "analyze"
    pc,           \* "idle" | "awaiting" (suspended in generateObject) | "done"
    body,         \* what request.json() produced
    gatewayCalls, \* generateObject calls made for this request
    gwPrompt,     \* what the last generateObject call was given
    gwOutcome,    \* how the generateObject call ended
    responses,    \* the responses returned for this request
    \* ---- TodoSummary (browser) and the statistics of analyze-todos ----
    sumTodos,     \* the todo list (the todos prop / the todos of the body)
    sumNow,       \* the instant read by new Date(), milliseconds since epoch
    sumPhase,     \* "input" | "rendered" | "analyzed"
    sumView,      \* what one render of TodoSummary computes
    sumStats,     \* the statistics analyze-todos computes for sumTodos
    \* ---- HomePage (browser): the list and its controls ----
    pageTodos,    \* HomePage's todos state: the local todo list
    searchQuery,  \* useState(''): the search box
    statusFilter, \* 'all' | 'active' | 'completed'
    priorityFilters, \* the priorities ticked in the filter
    sortBy,       \* 'priority' | 'due_date' | 'created_date'
    engine,       \* the browser's Array.prototype.sort
    \* ---- HomePage handlers, TodoCard, TodoForm and the todos table ----
    isLoading,    \* HomePage's isLoading state
    pageError,    \* HomePage's error state is set
    stored,       \* the rows of the todos table of the signed-in user
    calls,        \* the handler calls suspended in an await
    cards,        \* per todo id: the state of its mounted TodoCard
    form,         \* the fields of the inline TodoForm (add mode)
    \* ---- AuthProvider ----
    pathname,     \* usePathname()
    authUser,     \* AuthProvider's user state
    authLoading,  \* AuthProvider's isLoading state
    lookup,       \* the getUser() calls of initializeAuth not yet settled:
                  \* the pathname each one was started under
    signedIn,     \* the auth service holds a session for this browser
    redirects,    \* the router.replace() calls issued and not yet carried out
    \* ---- TodoSummary: the AI analysis panel ----
    tab,          \* TodoSummary's period state: the selected tab
    analysis,     \* the analysis on display (or none)
    isAnalyzing,  \* a request is thought to be running
    anaError,     \* the error on display (or none)
    anaRequest    \* the fetch of handleAnalyze

textVars == <<txtIn, txtPhase, txtValid, txtOut, txtOut2>>

repairVars == <<repRaw, repToday, repPhase, repOut>>

handlerVars == <<apiKey, session, now, endpoint, pc, body, gatewayCalls, gwPrompt,
                 gwOutcome, responses>>

summaryVars == <<sumTodos, sumNow, sumPhase, sumView, sumStats>>

listVars == <<pageTodos, searchQuery, statusFilter, priorityFilters, sortBy,
              engine>>

controlVars == <<searchQuery, statusFilter, priorityFilters, sortBy, engine>>

pageVars == <<isLoading, pageError, stored, calls, cards, form>>

authVars == <<pathname, authUser, authLoading, lookup, signedIn, redirects>>

analysisVars == <<tab, analysis, isAnalyzing, anaError, anaRequest>>

clientVars == <<listVars, pageVars, authVars, analysisVars>>

vars == <<txtIn, txtPhase, txtValid, txtOut, txtOut2, tzOffset,
          repRaw, repToday, repPhase, repOut,
          apiKey, session, now, endpoint, pc, body, gatewayCalls, gwPrompt,
          gwOutcome, responses,
          sumTodos, sumNow, sumPhase, sumView, sumStats,
          pageTodos, searchQuery, statusFilter, priorityFilters, sortBy, engine,
          isLoading, pageError, stored, calls, cards, form,
          pathname, authUser, authLoading, lookup, signedIn, redirects,
          tab, analysis, isAnalyzing, anaError, anaRequest>>

(***************************************************************************)
(* Bounds                                                                  *)
(***************************************************************************)
MaxRuns == 3          \* longest text, counted in runs
MaxTitleRuns == 2     \* longest generated title, counted in runs
MaxMarkers == 2       \* probe substrings one error message can contain
MaxTodos == 2         \* longest todo list sent to analyze-todos

(***************************************************************************)
(* Program constants                                                       *)
(***************************************************************************)
MinPromptLen == 2
MaxPromptLen == 500
MaxTitleLen == 100
MinTitleLen == 2
TitleKeep == 97
MinutesPerDay == 1440
KstOffset == 540

(***************************************************************************)
(* Run-length strings                                                      *)
(***************************************************************************)
Run(c, n) == [ch |-> c, n |-> n]

WhiteSpace == {" ", "\t", "\n"}

IsWs(c) == c \in WhiteSpace

RECURSIVE StrLen(_)
StrLen(t) == IF t = <<>> THEN 0 ELSE Head(t).n + StrLen(Tail(t))

RECURSIVE DropLeadingWs(_)
DropLeadingWs(t) ==
    IF t = <<>> THEN <<>>
    ELSE IF IsWs(Head(t).ch) THEN DropLeadingWs(Tail(t))
    ELSE t

RECURSIVE DropTrailingWs(_)
DropTrailingWs(t) ==
    IF t = <<>> THEN <<>>
    ELSE IF IsWs(t[Len(t)].ch) THEN DropTrailingWs(SubSeq(t, 1, Len(t) - 1))
    ELSE t

\* String.prototype.trim
trim(t) == DropTrailingWs(DropLeadingWs(t))

\* text.replace(/\s+/g, ' '): every maximal run of white space, newlines
\* included, becomes one space
RECURSIVE replaceWhitespaceRuns(_)
replaceWhitespaceRuns(t) ==
    IF t = <<>> THEN <<>>
    ELSE IF IsWs(Head(t).ch)
         THEN <<Run(" ", 1)>> \o replaceWhitespaceRuns(DropLeadingWs(t))
         ELSE <<Head(t)>> \o replaceWhitespaceRuns(Tail(t))

\* text.replace(/\n+/g, '\n')
replaceNewlineRuns(t) ==
    [i \in 1..Len(t) |-> IF t[i].ch = "\n" THEN Run("\n", 1) ELSE t[i]]

\* the test of the character class: Hangul syllable, Latin letter or digit
hasValidContent(t) == \E i \in 1..Len(t) : t[i].ch \in {"a", "h"}

(***************************************************************************)
(* JavaScript values that can arrive as `prompt`                           *)
(***************************************************************************)
JsUndefined == [type |-> "undefined", str |-> <<>>]
JsNumber    == [type |-> "number",    str |-> <<>>]   \* a truthy non-string
JsString(t) == [type |-> "string",    str |-> t]

Truthy(v) == v.type = "number" \/ (v.type = "string" /\ v.str # <<>>)

(***************************************************************************)
(* validateInput                                                           *)
(***************************************************************************)
MsgInvalidInput == "enter a valid task description"
MsgTooShort     == "too short, minimum 2 characters"
MsgTooLong      == "too long, maximum 500 characters"
MsgNoContent    == "must contain valid characters"
NoError         == "(undefined)"

validateInputLengthFirst(text) ==
    IF ~Truthy(text) \/ text.type # "string"
    THEN [valid |-> FALSE, error |-> MsgInvalidInput]
    ELSE IF StrLen(text.str) > MaxPromptLen
    THEN [valid |-> FALSE, error |-> MsgTooLong]
    ELSE IF StrLen(trim(text.str)) < MinPromptLen
    THEN [valid |-> FALSE, error |-> MsgTooShort]
    ELSE IF ~hasValidContent(trim(text.str))
    THEN [valid |-> FALSE, error |-> MsgNoContent]
    ELSE [valid |-> TRUE, error |-> NoError]

validateInput(text) ==
    IF ~Truthy(text) \/ text.type # "string"
    THEN [valid |-> FALSE, error |-> MsgInvalidInput]
    ELSE LET trimmed == trim(text.str) IN
         IF StrLen(trimmed) < MinPromptLen
         THEN [valid |-> FALSE, error |-> MsgTooShort]
         ELSE IF StrLen(text.str) > MaxPromptLen
         THEN [valid |-> FALSE, error |-> MsgTooLong]
         ELSE IF ~hasValidContent(trimmed)
         THEN [valid |-> FALSE, error |-> MsgNoContent]
         ELSE [valid |-> TRUE, error |-> NoError]

(***************************************************************************)
(* preprocessInput                                                         *)
(***************************************************************************)
\* a collapse written with /\s\s/g: white space is merged pairwise, an odd
\* last character of a run stays as it is
RECURSIVE LeadingWsLen(_)
LeadingWsLen(t) ==
    IF t = <<>> \/ ~IsWs(Head(t).ch) THEN 0
    ELSE Head(t).n + LeadingWsLen(Tail(t))

RECURSIVE LeadingWsLast(_)
LeadingWsLast(t) ==
    IF Len(t) > 1 /\ IsWs(t[2].ch) THEN LeadingWsLast(Tail(t)) ELSE Head(t).ch

PairCollapse(total, last) ==
    LET half == total \div 2 IN
    IF total % 2 = 0 THEN <<Run(" ", half)>>
    ELSE IF last = " " THEN <<Run(" ", half + 1)>>
    ELSE IF half = 0 THEN <<Run(last, 1)>>
    ELSE <<Run(" ", half), Run(last, 1)>>

RECURSIVE replaceWhitespacePairs(_)
replaceWhitespacePairs(t) ==
    IF t = <<>> THEN <<>>
    ELSE IF IsWs(Head(t).ch)
         THEN PairCollapse(LeadingWsLen(t), LeadingWsLast(t))
                  \o replaceWhitespacePairs(DropLeadingWs(t))
         ELSE <<Head(t)>> \o replaceWhitespacePairs(Tail(t))

preprocessInputPairwise(text) ==
    replaceNewlineRuns(replaceWhitespacePairs(trim(text)))

preprocessInput(text) == replaceNewlineRuns(replaceWhitespaceRuns(trim(text)))

(***************************************************************************)
(* Input texts                                                             *)
(***************************************************************************)
Chars   == {"a", "!", " ", "\t", "\n"}
RunLens == {1, 2, 3, MaxPromptLen - 1, MaxPromptLen}
Runs    == {Run(c, n) : c \in Chars, n \in RunLens}

TextsUpTo(k) == UNION {[1..n -> Runs] : n \in 0..k}

Canonical(t) == \A i \in 1..(Len(t) - 1) : t[i].ch # t[i + 1].ch

Texts == {t \in TextsUpTo(MaxRuns) : Canonical(t)}

PromptValues == {JsUndefined, JsNumber} \cup {JsString(t) : t \in Texts}


(***************************************************************************)
(* postprocessTodo                                                         *)
(***************************************************************************)
\* optional string properties of the generated object
Absent == [def |-> FALSE, str |-> <<>>]
Str(t) == [def |-> TRUE, str |-> t]

TruthyStr(o) == o.def /\ o.str # <<>>

\* String.prototype.substring(0, k)
RECURSIVE Take(_, _)
Take(t, k) ==
    IF t = <<>> \/ k <= 0 THEN <<>>
    ELSE IF Head(t).n <= k THEN <<Head(t)>> \o Take(Tail(t), k - Head(t).n)
    ELSE <<Run(Head(t).ch, k)>>

\* string concatenation
Cat(a, b) ==
    IF a = <<>> THEN b
    ELSE IF b = <<>> THEN a
    ELSE IF a[Len(a)].ch = b[1].ch
         THEN SubSeq(a, 1, Len(a) - 1)
                  \o <<Run(b[1].ch, a[Len(a)].n + b[1].n)>> \o Tail(b)
         ELSE a \o b

Ellipsis     == <<Run(".", 3)>>
DefaultTitle == <<Run("h", 1), Run(" ", 1), Run("h", 1)>>
DefaultCategory == <<"personal">>
DefaultTime  == <<"0", "9", ":", "0", "0">>
Priorities   == {"low", "medium", "high"}
Digits       == {"0", "1", "2", "3", "4", "5", "6", "7", "8", "9"}

\* /^([0-1][0-9]|2[0-3]):[0-5][0-9]$/.test(s), s a sequence of characters
timeRegexTest(s) ==
    /\ Len(s) = 5
    /\ \/ s[1] \in {"0", "1"} /\ s[2] \in Digits
       \/ s[1] = "2" /\ s[2] \in {"0", "1", "2", "3"}
    /\ s[3] = ":"
    /\ s[4] \in {"0", "1", "2", "3", "4", "5"}
    /\ s[5] \in Digits

\* Date strings.  fmt is
\*   "absent"  the property is undefined
\*   "empty"   the empty string
\*   "invalid" a string new Date() cannot parse (Invalid Date)
\*   "date"    YYYY-MM-DD, which new Date() reads as 00:00 UTC of that day
\*   "local"   YYYY-MM-DDTHH:mm, which new Date() reads in the local zone
\* day is the calendar day written in the string, min the minutes of HH:mm.
DateStr(f, d, m) == [fmt |-> f, day |-> d, min |-> m]
NoDate      == DateStr("absent", 0, 0)
EmptyDate   == DateStr("empty", 0, 0)
InvalidDate == DateStr("invalid", 0, 0)
DateOnly(d) == DateStr("date", d, 0)

TruthyDate(s) == s.fmt \notin {"absent", "empty"}

\* a Date object: minutes since the epoch, or NaN
NaNDate    == [nan |-> TRUE, t |-> 0]
Instant(t) == [nan |-> FALSE, t |-> t]

\* new Date(string)
newDate(s) ==
    IF s.fmt = "date" THEN Instant(s.day * MinutesPerDay)
    ELSE IF s.fmt = "local"
         THEN Instant(s.day * MinutesPerDay + s.min - tzOffset)
    ELSE NaNDate

\* Date.prototype.setHours(0, 0, 0, 0): midnight of the local day
setHoursZero(d) ==
    IF d.nan THEN d
    ELSE Instant(((d.t + tzOffset) \div MinutesPerDay) * MinutesPerDay
                     - tzOffset)

\* the < of two Date objects (false when either is NaN)
DateLess(a, b) == ~a.nan /\ ~b.nan /\ a.t < b.t

postprocessTitle(title) ==
    IF TruthyStr(title)
    THEN LET trimmed == trim(title.str)
             cut == IF StrLen(trimmed) > MaxTitleLen
                    THEN Cat(Take(trimmed, TitleKeep), Ellipsis)
                    ELSE trimmed
         IN IF StrLen(cut) < MinTitleLen THEN Str(DefaultTitle) ELSE Str(cut)
    ELSE Str(DefaultTitle)

postprocessDescription(description) ==
    IF TruthyStr(description)
    THEN IF StrLen(trim(description.str)) = 0 THEN Absent
         ELSE Str(trim(description.str))
    ELSE description

postprocessDueDate(due_date, currentDate) ==
    IF TruthyDate(due_date)
    THEN LET dueDate == setHoursZero(newDate(due_date))
             today   == setHoursZero(newDate(DateOnly(currentDate)))
         IN IF DateLess(dueDate, today) THEN DateOnly(currentDate)
            ELSE due_date
    ELSE due_date

postprocessPriority(priority) ==
    IF priority = "(undefined)" \/ priority \notin Priorities THEN "medium"
    ELSE priority

postprocessCategory(category) ==
    IF ~category.def \/ Len(category.list) = 0
    THEN [def |-> TRUE, list |-> DefaultCategory]
    ELSE category

postprocessDueTime(due_time) ==
    IF TruthyStr(due_time)
    THEN IF ~timeRegexTest(due_time.str) THEN Str(DefaultTime) ELSE due_time
    ELSE due_time

postprocessTodo(todo, currentDate) ==
    [title       |-> postprocessTitle(todo.title),
     description |-> postprocessDescription(todo.description),
     due_date    |-> postprocessDueDate(todo.due_date, currentDate),
     priority    |-> postprocessPriority(todo.priority),
     category    |-> postprocessCategory(todo.category),
     due_time    |-> postprocessDueTime(todo.due_time)]

(***************************************************************************)
(* Objects the model can return under todoSchema, and the empty object     *)
(***************************************************************************)
BaseDay == 11                       \* the current civil day (UTC+9)
DueDays == (BaseDay - 1)..(BaseDay + 1)
ServerOffsets == {-300, 0, 540}     \* UTC-5, UTC, UTC+9

TitleLens  == {1, 2, MaxTitleLen, MaxTitleLen + 1}
TitleRuns  == {Run(c, n) : c \in {"a", " "}, n \in TitleLens}

TitlesUpTo(k) == UNION {[1..n -> TitleRuns] : n \in 0..k}

Titles == {Absent} \cup
          {Str(t) : t \in {u \in TitlesUpTo(MaxTitleRuns) : Canonical(u)}}

Descriptions == {Absent, Str(<<>>), Str(<<Run(" ", 2)>>),
                 Str(<<Run(" ", 1), Run("a", 2)>>)}

DueDates == {NoDate, EmptyDate, InvalidDate}
            \cup {DateOnly(d) : d \in DueDays}
            \cup {DateStr("local", d, 600) : d \in DueDays}

DueTimes == {Absent, Str(<<>>), Str(<<"1", "4", ":", "3", "0">>),
             Str(<<"2", "5", ":", "9", "9">>)}

RawPriorities == {"(undefined)"} \cup Priorities

Categories == {[def |-> FALSE, list |-> <<>>], [def |-> TRUE, list |-> <<>>],
               [def |-> TRUE, list |-> <<"work", "study">>]}

RawTodos ==
    [title : Titles, description : Descriptions, due_date : DueDates,
     priority : RawPriorities, category : Categories, due_time : DueTimes]

(***************************************************************************)
(* Specification of the repair pass                                        *)
(***************************************************************************)
RepairInit ==
    /\ tzOffset \in ServerOffsets
    /\ repRaw \in RawTodos
    /\ repToday = BaseDay
    /\ repPhase = "raw"
    /\ repOut = repRaw

Repair ==
    /\ repPhase = "raw"
    /\ repOut' = postprocessTodo(repRaw, repToday)
    /\ repPhase' = "repaired"
    /\ UNCHANGED <<repRaw, repToday, tzOffset, textVars, handlerVars,
                   summaryVars, clientVars>>

TextIdle ==
    /\ txtIn = JsUndefined
    /\ txtPhase = "input"
    /\ txtValid = [valid |-> FALSE, error |-> NoError]
    /\ txtOut = <<>>
    /\ txtOut2 = <<>>

RepairIdle ==
    /\ repRaw = [title |-> Absent]
    /\ repToday = BaseDay
    /\ repPhase = "raw"
    /\ repOut = [title |-> Absent]

HandlerIdle ==
    /\ apiKey = TRUE
    /\ session = TRUE
    /\ now = BaseDay * MinutesPerDay
    /\ endpoint = "none"
    /\ pc = "idle"
    /\ body = [json |-> "none"]
    /\ gatewayCalls = 0
    /\ gwPrompt = <<>>
    /\ gwOutcome = [kind |-> "none"]
    /\ responses = <<>>

SummaryIdle ==
    /\ sumTodos = <<>>
    /\ sumNow = 0
    /\ sumPhase = "input"
    /\ sumView = [rendered |-> FALSE]
    /\ sumStats = [computed |-> FALSE]

ListIdle ==
    /\ pageTodos = <<>>
    /\ searchQuery = <<>>
    /\ statusFilter = "all"
    /\ priorityFilters = {}
    /\ sortBy = "created_date"
    /\ engine = "v8"

\* TodoForm in add mode as it mounts: empty fields, no due date, no error
InitialForm ==
    [title |-> <<>>, description |-> <<>>,
     dueDate |-> [def |-> FALSE, ms |-> 0], priority |-> "medium",
     categories |-> <<>>, error |-> "null"]

PageIdle ==
    /\ isLoading = FALSE
    /\ pageError = FALSE
    /\ stored = <<>>
    /\ calls = {}
    /\ cards = <<>>
    /\ form = InitialForm

AuthIdle ==
    /\ pathname = "/"
    /\ authUser = "null"
    /\ authLoading = TRUE
    /\ lookup = {}
    /\ signedIn = FALSE
    /\ redirects = <<>>

AnalysisIdle ==
    /\ tab = "today"
    /\ analysis = "null"
    /\ isAnalyzing = FALSE
    /\ anaError = FALSE
    /\ anaRequest = [stage |-> "none"]

ClientIdle == ListIdle /\ PageIdle /\ AuthIdle /\ AnalysisIdle

RepairSpecInit ==
    RepairInit /\ TextIdle /\ HandlerIdle /\ SummaryIdle /\ ClientIdle

RepairNext == Repair

RepairSpec == RepairSpecInit /\ [][RepairNext]_vars

\* a calendar day is written in the string
HasCalendarDay(s) == s.fmt \in {"date", "local"}

\* C1: postprocessTodo returns a title of length 2..100, a priority among
\* low/medium/high, a category with at least one element and, when due_date
\* is present, a due date that is not before today
C1_RepairedRecordValid ==
    repPhase = "repaired" =>
        /\ repOut.title.def
        /\ StrLen(repOut.title.str) >= 2
        /\ StrLen(repOut.title.str) <= 100
        /\ repOut.priority \in {"low", "medium", "high"}
        /\ repOut.category.def
        /\ Len(repOut.category.list) >= 1
        /\ HasCalendarDay(repOut.due_date) => repOut.due_date.day >= repToday

\* C11: a present due_date whose calendar date is strictly earlier than the
\* resolution date is overwritten with the resolution date, and a present
\* due_date on or after the resolution date is returned unchanged
C11_PastDueDateOverwritten ==
    (repPhase = "repaired" /\ HasCalendarDay(repRaw.due_date)) =>
        IF repRaw.due_date.day < repToday
        THEN repOut.due_date = DateOnly(repToday)
        ELSE repOut.due_date = repRaw.due_date

\* C12: after postprocessTodo due_time is absent or matches HH:mm; a present
\* due_time that does not match is replaced by "09:00" and a matching one is
\* returned unchanged
C12_DueTimeAbsentOrValid ==
    repPhase = "repaired" =>
        /\ ~repOut.due_time.def \/ timeRegexTest(repOut.due_time.str)
        /\ repRaw.due_time.def =>
               repOut.due_time = IF timeRegexTest(repRaw.due_time.str)
                                 THEN repRaw.due_time
                                 ELSE Str(DefaultTime)

\* C13: after postprocessTodo description is absent or a non-empty trimmed
\* string; a raw description that is empty or only whitespace becomes absent
C13_DescriptionAbsentOrNonEmpty ==
    repPhase = "repaired" =>
        /\ repOut.description.def =>
               /\ StrLen(repOut.description.str) > 0
               /\ trim(repOut.description.str) = repOut.description.str
        /\ (repRaw.description.def
                /\ StrLen(trim(repRaw.description.str)) = 0) =>
               ~repOut.description.def

(***************************************************************************)
(* Errors and responses of the route handlers                              *)
(***************************************************************************)
\* An error is seen by the catch blocks through its name, its code and the
\* substrings its message is probed for; `has` is the set of those
\* substrings the message contains.
Markers == {"JSON", "API key", "authentication", "quota", "rate limit",
            "429", "timeout", "model", "gemini"}
Codes   == {"none", "ETIMEDOUT", "ECONNREFUSED", "ENOTFOUND"}

Err(n, h, c) == [name |-> n, has |-> h, code |-> c]

includes(error, substring) == substring \in error.has

\* request.json() on a body that is not JSON
BodySyntaxError == Err("SyntaxError", {"JSON"}, "none")
\* destructuring null, or reading a property of undefined
PlainTypeError  == Err("TypeError", {}, "none")

NoData == [kind |-> "none"]

\* NextResponse.json({success: false, error}, {status})
ErrorResponse(status, message) ==
    [status |-> status, success |-> FALSE, error |-> message, data |-> NoData]

\* NextResponse.json({success: true, data})
SuccessResponse(data) ==
    [status |-> 200, success |-> TRUE, error |-> NoError, data |-> data]

\* the literal messages of generate-todo
MsgBadInput       == "invalid input"
MsgNotConfigured  == "AI service is not configured"
MsgBadBodyFormat  == "request data format is not valid"
MsgAuthAdmin      == "AI service authentication failed, contact the administrator"
MsgQuota          == "AI service quota exceeded, try again later"
MsgTimeout        == "request timed out, try again"
MsgNetwork        == "network connection failed, check the connection"
MsgModel          == "an error occurred during AI processing, try again"
MsgGenerateFailed == "an error occurred while generating the todo"
\* the literal messages of analyze-todos
MsgNeedTodos      == "a valid todo list is required"
MsgBadPeriod      == "period must be 'today' or 'week'"
MsgAuth           == "AI service authentication failed"
MsgAnalyzeFailed  == "an error occurred while analyzing the todos"

\* kstTime.toISOString().split('T')[0], as a day number
currentDate(t) == (t + KstOffset) \div MinutesPerDay

(***************************************************************************)
(* POST /api/ai/generate-todo                                              *)
(***************************************************************************)
Respond(r)  == [kind |-> "respond", resp |-> r, error |-> PlainTypeError,
                prompt |-> <<>>]
Throw(e)    == [kind |-> "throw", resp |-> NoData, error |-> e,
                prompt |-> <<>>]
CallGateway(p) == [kind |-> "call", resp |-> NoData, error |-> PlainTypeError,
                   prompt |-> p]

\* a catch block whose last branch answers with the exception's own message
RawMessage(error) == "raw upstream exception text"

generateCatchRawMessage(error) ==
    IF error.name = "SyntaxError" \/ includes(error, "JSON")
    THEN ErrorResponse(400, MsgBadBodyFormat)
    ELSE IF includes(error, "API key") \/ includes(error, "authentication")
    THEN ErrorResponse(401, MsgAuthAdmin)
    ELSE IF includes(error, "quota") \/ includes(error, "rate limit")
            \/ includes(error, "429")
    THEN ErrorResponse(429, MsgQuota)
    ELSE IF includes(error, "timeout") \/ error.code = "ETIMEDOUT"
    THEN ErrorResponse(504, MsgTimeout)
    ELSE IF error.code = "ECONNREFUSED" \/ error.code = "ENOTFOUND"
    THEN ErrorResponse(503, MsgNetwork)
    ELSE ErrorResponse(500, RawMessage(error))

\* the catch block of generate-todo
generateCatch(error) ==
    IF error.name = "SyntaxError" \/ includes(error, "JSON")
    THEN ErrorResponse(400, MsgBadBodyFormat)
    ELSE IF includes(error, "API key") \/ includes(error, "authentication")
    THEN ErrorResponse(401, MsgAuthAdmin)
    ELSE IF includes(error, "quota") \/ includes(error, "rate limit")
            \/ includes(error, "429")
    THEN ErrorResponse(429, MsgQuota)
    ELSE IF includes(error, "timeout") \/ error.code = "ETIMEDOUT"
    THEN ErrorResponse(504, MsgTimeout)
    ELSE IF error.code = "ECONNREFUSED" \/ error.code = "ENOTFOUND"
    THEN ErrorResponse(503, MsgNetwork)
    ELSE IF includes(error, "model") \/ includes(error, "gemini")
    THEN ErrorResponse(500, MsgModel)
    ELSE ErrorResponse(500, MsgGenerateFailed)

\* the try block of generate-todo up to the await of generateObject
\* kstTime.getUTCDay() of a day number: 0 is Sunday (day 0 was a Thursday)
getUTCDay(day) == (day + 4) % 7

\* date references in which a Friday is its own upcoming Friday
dateReferencesSameDay(t) ==
    LET today == currentDate(t)
        currentDay == getUTCDay(today)
        daysUntilFriday == (5 - currentDay + 7) % 7
        daysUntilNextMonday == IF (8 - currentDay) % 7 = 0 THEN 7
                               ELSE (8 - currentDay) % 7
    IN [currentDate |-> today,
        tomorrowDate |-> today + 1,
        dayAfterTomorrowDate |-> today + 2,
        thisFridayDate |-> today + daysUntilFriday,
        nextMondayDate |-> today + daysUntilNextMonday]

\* the calendar dates (UTC+9) the prompt is given, as day numbers
dateReferences(t) ==
    LET today == currentDate(t)
        currentDay == getUTCDay(today)
        daysUntilFriday == (5 - currentDay + 7) % 7
        daysUntilNextMonday == IF (8 - currentDay) % 7 = 0 THEN 7
                               ELSE (8 - currentDay) % 7
    IN [currentDate |-> today,
        tomorrowDate |-> today + 1,
        dayAfterTomorrowDate |-> today + 2,
        thisFridayDate |-> today + (IF daysUntilFriday = 0 THEN 7
                                    ELSE daysUntilFriday),
        nextMondayDate |-> today + daysUntilNextMonday]

generateBeforeGateway(b, t) ==
    IF b.json = "malformed" THEN Throw(BodySyntaxError)
    ELSE IF b.json = "null" THEN Throw(PlainTypeError)
    ELSE LET validation == validateInput(b.prompt) IN
         IF ~validation.valid
         THEN Respond(ErrorResponse(400,
                  IF validation.error # NoError THEN validation.error
                  ELSE MsgBadInput))
         ELSE LET processedPrompt == preprocessInput(b.prompt.str) IN
              IF ~apiKey THEN Respond(ErrorResponse(500, MsgNotConfigured))
              ELSE CallGateway([input |-> processedPrompt,
                                dates |-> dateReferences(t)])

\* the try block of generate-todo after generateObject returned result
generateAfterGateway(result, t) ==
    SuccessResponse([kind |-> "todo",
                     todo |-> postprocessTodo(result, currentDate(t))])

(***************************************************************************)
(* POST /api/ai/analyze-todos                                              *)
(***************************************************************************)
CannedAnalysis(period) ==
    [summary |-> IF period = "today" THEN "no todos registered today"
                 ELSE "no todos registered this week",
     urgentTasks |-> <<>>,
     insights |-> <<"you have not added any todo yet", "try adding a new todo">>,
     recommendations |-> <<"add todos to manage them systematically",
                           "the AI generation feature makes it easier">>]

\* the statistics of the try block read t.completed and call
\* t.category.forEach: an element without a category array throws
statisticsThrow(todos) ==
    \E i \in 1..Len(todos) : ~todos[i].category.def

\* a catch block with the timeout and network branches of generate-todo
analyzeCatchLikeGenerate(error) ==
    IF includes(error, "API key") \/ includes(error, "authentication")
    THEN ErrorResponse(401, MsgAuth)
    ELSE IF includes(error, "quota") \/ includes(error, "rate limit")
            \/ includes(error, "429")
    THEN ErrorResponse(429, MsgQuota)
    ELSE IF includes(error, "timeout") \/ error.code = "ETIMEDOUT"
    THEN ErrorResponse(504, MsgTimeout)
    ELSE IF error.code \in {"ECONNREFUSED", "ENOTFOUND"}
    THEN ErrorResponse(503, MsgNetwork)
    ELSE ErrorResponse(500, MsgAnalyzeFailed)

\* the catch block of analyze-todos
analyzeCatch(error) ==
    IF includes(error, "API key") \/ includes(error, "authentication")
    THEN ErrorResponse(401, MsgAuth)
    ELSE IF includes(error, "quota") \/ includes(error, "rate limit")
            \/ includes(error, "429")
    THEN ErrorResponse(429, MsgQuota)
    ELSE ErrorResponse(500, MsgAnalyzeFailed)

\* a try block that checks the API key before the empty list
analyzeBeforeGatewayKeyFirst(b) ==
    IF b.json = "malformed" THEN Throw(BodySyntaxError)
    ELSE IF b.json = "null" THEN Throw(PlainTypeError)
    ELSE IF ~b.todos.isArray
    THEN Respond(ErrorResponse(400, MsgNeedTodos))
    ELSE IF b.period \notin {"today", "week"}
    THEN Respond(ErrorResponse(400, MsgBadPeriod))
    ELSE IF ~apiKey THEN Respond(ErrorResponse(500, MsgNotConfigured))
    ELSE IF Len(b.todos.list) = 0
    THEN Respond(SuccessResponse([kind |-> "analysis",
                                  analysis |-> CannedAnalysis(b.period)]))
    ELSE IF statisticsThrow(b.todos.list) THEN Throw(PlainTypeError)
    ELSE CallGateway([period |-> b.period, todos |-> b.todos.list])

\* a try block without the API key check
analyzeBeforeGatewayNoKeyCheck(b) ==
    IF b.json = "malformed" THEN Throw(BodySyntaxError)
    ELSE IF b.json = "null" THEN Throw(PlainTypeError)
    ELSE IF ~b.todos.isArray
    THEN Respond(ErrorResponse(400, MsgNeedTodos))
    ELSE IF b.period \notin {"today", "week"}
    THEN Respond(ErrorResponse(400, MsgBadPeriod))
    ELSE IF Len(b.todos.list) = 0
    THEN Respond(SuccessResponse([kind |-> "analysis",
                                  analysis |-> CannedAnalysis(b.period)]))
    ELSE IF statisticsThrow(b.todos.list) THEN Throw(PlainTypeError)
    ELSE CallGateway([period |-> b.period, todos |-> b.todos.list])

\* the try block of analyze-todos up to the await of generateObject
analyzeBeforeGateway(b) ==
    IF b.json = "malformed" THEN Throw(BodySyntaxError)
    ELSE IF b.json = "null" THEN Throw(PlainTypeError)
    ELSE IF ~b.todos.isArray
    THEN Respond(ErrorResponse(400, MsgNeedTodos))
    ELSE IF b.period \notin {"today", "week"}
    THEN Respond(ErrorResponse(400, MsgBadPeriod))
    ELSE IF Len(b.todos.list) = 0
    THEN Respond(SuccessResponse([kind |-> "analysis",
                                  analysis |-> CannedAnalysis(b.period)]))
    ELSE IF ~apiKey THEN Respond(ErrorResponse(500, MsgNotConfigured))
    ELSE IF statisticsThrow(b.todos.list) THEN Throw(PlainTypeError)
    ELSE CallGateway([period |-> b.period, todos |-> b.todos.list])

\* the try block of analyze-todos after generateObject returned result
analyzeAfterGateway(result) ==
    SuccessResponse([kind |-> "analysis", analysis |-> result])

(***************************************************************************)
(* The Gateway (generateObject) seen from the handlers                     *)
(***************************************************************************)
FailureKinds == {"auth", "quota", "timeout", "network", "model"}

MarkerSets == {h \in SUBSET Markers : Cardinality(h) <= MaxMarkers}

\* what an error of each kind carries: the marker its catch branch probes
\* for, next to whatever else the upstream text contains
CarriesKind(k, e) ==
    CASE k = "auth"    -> /\ e.has \cap {"API key", "authentication"} # {}
                          /\ e.code = "none"
      [] k = "quota"   -> /\ e.has \cap {"quota", "rate limit", "429"} # {}
                          /\ e.code = "none"
      [] k = "timeout" -> \/ "timeout" \in e.has /\ e.code = "none"
                          \/ e.code = "ETIMEDOUT"
      [] k = "network" -> e.code \in {"ECONNREFUSED", "ENOTFOUND"}
      [] k = "model"   -> /\ e.has \subseteq {"JSON", "model", "gemini"}
                          /\ e.code = "none"

GatewayFailures ==
    {f \in [kind : FailureKinds,
            error : {Err("Error", h, c) : h \in MarkerSets, c \in Codes}] :
        CarriesKind(f.kind, f.error)}

\* objects that conform to todoSchema (and the empty object)
GeneratedObjects ==
    [title : {Absent, Str(<<Run("a", 2)>>), Str(<<Run("a", MaxTitleLen + 1)>>)},
     description : {Absent, Str(<<Run(" ", 2)>>)},
     due_date : DueDates,
     priority : {"(undefined)", "high"},
     category : Categories,
     due_time : {Str(<<"1", "4", ":", "3", "0">>),
                 Str(<<"2", "5", ":", "9", "9">>)}]

\* objects that conform to analysisSchema
GeneratedList(n) == [i \in 1..n |-> "generated text"]

AnalysisObjects ==
    [summary : {"generated summary"},
     urgentTasks : {GeneratedList(n) : n \in {0, 5, 6}},
     insights : {GeneratedList(n) : n \in {3, 8}},
     recommendations : {GeneratedList(n) : n \in {3, 8}}]

(***************************************************************************)
(* Requests                                                                *)
(***************************************************************************)
GenerateBodies ==
    {[json |-> "malformed", prompt |-> JsUndefined],
     [json |-> "null", prompt |-> JsUndefined]}
    \cup {[json |-> "object", prompt |-> v] :
            v \in {JsUndefined, JsNumber, JsString(<<>>),
                   JsString(<<Run("a", 1)>>),
                   JsString(<<Run("a", 2)>>),
                   JsString(<<Run("!", 2)>>),
                   JsString(<<Run(" ", 1), Run("a", 2), Run("\n", 2)>>),
                   JsString(<<Run("a", MaxPromptLen)>>),
                   JsString(<<Run("a", MaxPromptLen), Run(" ", 1)>>)}}

TodoItem(done, cat, due) ==
    [completed |-> done, priority |-> "medium", category |-> cat,
     due_date |-> due, created_date |-> DateStr("local", BaseDay, 600)]

TodoItems ==
    {TodoItem(FALSE, [def |-> TRUE, list |-> <<"work">>], NoDate),
     TodoItem(TRUE, [def |-> TRUE, list |-> <<"work", "study">>],
              DateStr("local", BaseDay - 1, 600)),
     TodoItem(FALSE, [def |-> FALSE, list |-> <<>>], NoDate)}

TodoListsUpTo(k) == UNION {[1..n -> TodoItems] : n \in 0..k}

NotAnArray == [isArray |-> FALSE, list |-> <<>>]
Array(l)   == [isArray |-> TRUE, list |-> l]

AnalyzeBodies ==
    {[json |-> "malformed", todos |-> NotAnArray, period |-> "(undefined)"],
     [json |-> "null", todos |-> NotAnArray, period |-> "(undefined)"]}
    \cup [json : {"object"},
          todos : {NotAnArray} \cup {Array(l) : l \in TodoListsUpTo(MaxTodos)},
          period : {"today", "week", "month", "(undefined)"}]

NowInstants == {(BaseDay - 1) * MinutesPerDay + 1200}
               \cup {d * MinutesPerDay + 180 : d \in BaseDay..(BaseDay + 6)}

(***************************************************************************)
(* Specification of the route handlers                                     *)
(***************************************************************************)
NoOutcome == [kind |-> "none"]

Init ==
    /\ TextIdle
    /\ RepairIdle
    /\ SummaryIdle
    /\ ClientIdle
    /\ tzOffset \in ServerOffsets
    /\ apiKey \in BOOLEAN
    /\ session \in BOOLEAN
    /\ now \in NowInstants
    /\ endpoint = "none"
    /\ pc = "idle"
    /\ body = [json |-> "none"]
    /\ gatewayCalls = 0
    /\ gwPrompt = <<>>
    /\ gwOutcome = NoOutcome
    /\ responses = <<>>

\* the path of a route handler, by segments
Path(ep) == IF ep = "generate" THEN <<"api", "ai", "generate-todo">>
            ELSE <<"api", "ai", "analyze-todos">>

\* config.matcher: every path that does not begin with /api, /_next/static,
\* /_next/image or /favicon.ico
matcher(path) ==
    path = <<>> \/ Head(path) \notin {"api", "_next", "favicon.ico"}

\* updateSession: refreshes the session cookies and lets the request pass,
\* whether a user was found or not (the redirect is commented out)
updateSession(user) == "next"

\* middleware
middleware(path, user) ==
    IF path # <<>> /\ Head(path) \in {"_next", "favicon.ico"} THEN "next"
    ELSE updateSession(user)

\* the request reaches the route handler
Passes(ep) ==
    IF matcher(Path(ep)) THEN middleware(Path(ep), session) = "next"
    ELSE TRUE

\* a request arrives and its handler runs up to its first await or return
Receive(ep, b, t, before, caught) ==
    /\ pc = "idle"
    /\ Passes(ep)
    /\ endpoint' = ep
    /\ body' = b
    /\ now' = t
    /\ gwOutcome' = NoOutcome
    /\ CASE before.kind = "respond" ->
              /\ responses' = <<before.resp>>
              /\ gatewayCalls' = 0
              /\ gwPrompt' = <<>>
              /\ pc' = "done"
         [] before.kind = "throw" ->
              /\ responses' = <<caught>>
              /\ gatewayCalls' = 0
              /\ gwPrompt' = <<>>
              /\ pc' = "done"
         [] before.kind = "call" ->
              /\ responses' = <<>>
              /\ gatewayCalls' = 1
              /\ gwPrompt' = before.prompt
              /\ pc' = "awaiting"
    /\ UNCHANGED <<apiKey, session, tzOffset, textVars, repairVars,
                   summaryVars, clientVars>>

ReceiveGenerate(b, t) ==
    LET before == generateBeforeGateway(b, t) IN
    Receive("generate", b, t, before, generateCatch(before.error))

ReceiveAnalyze(b, t) ==
    LET before == analyzeBeforeGateway(b) IN
    Receive("analyze", b, t, before, analyzeCatch(before.error))

\* generateObject resolves with a schema-conformant object
GatewayReturnGenerate(result) ==
    /\ pc = "awaiting"
    /\ endpoint = "generate"
    /\ gwOutcome' = [kind |-> "ok"]
    /\ responses' = Append(responses, generateAfterGateway(result, now))
    /\ pc' = "done"
    /\ UNCHANGED <<apiKey, session, tzOffset, now, endpoint, body, gatewayCalls,
                   gwPrompt, textVars, repairVars,
                   summaryVars, clientVars>>

GatewayReturnAnalyze(result) ==
    /\ pc = "awaiting"
    /\ endpoint = "analyze"
    /\ gwOutcome' = [kind |-> "ok"]
    /\ responses' = Append(responses, analyzeAfterGateway(result))
    /\ pc' = "done"
    /\ UNCHANGED <<apiKey, session, tzOffset, now, endpoint, body, gatewayCalls,
                   gwPrompt, textVars, repairVars,
                   summaryVars, clientVars>>

\* a catch block that calls generateObject once more before answering
GatewayFailRetry(f) ==
    /\ pc = "awaiting"
    /\ gwOutcome' = [kind |-> "fail", failure |-> f]
    /\ IF gatewayCalls < 2
       THEN /\ gatewayCalls' = gatewayCalls + 1
            /\ UNCHANGED <<responses, pc>>
       ELSE /\ responses' = Append(responses,
                                   IF endpoint = "generate"
                                   THEN generateCatch(f.error)
                                   ELSE analyzeCatch(f.error))
            /\ pc' = "done"
            /\ UNCHANGED gatewayCalls
    /\ UNCHANGED <<apiKey, session, tzOffset, now, endpoint, body, gwPrompt,
                   textVars, repairVars,
                   summaryVars, clientVars>>

\* generateObject rejects: the catch block answers
GatewayFail(f) ==
    /\ pc = "awaiting"
    /\ gwOutcome' = [kind |-> "fail", failure |-> f]
    /\ responses' = Append(responses,
                           IF endpoint = "generate"
                           THEN generateCatch(f.error)
                           ELSE analyzeCatch(f.error))
    /\ pc' = "done"
    /\ UNCHANGED <<apiKey, session, tzOffset, now, endpoint, body, gatewayCalls,
                   gwPrompt, textVars, repairVars,
                   summaryVars, clientVars>>

Next ==
    \/ /\ pc = "idle"
       /\ \E b \in GenerateBodies, t \in NowInstants : ReceiveGenerate(b, t)
    \/ /\ pc = "idle"
       /\ \E b \in AnalyzeBodies, t \in NowInstants : ReceiveAnalyze(b, t)
    \/ /\ pc = "awaiting"
       /\ \E r \in GeneratedObjects : GatewayReturnGenerate(r)
    \/ /\ pc = "awaiting"
       /\ \E r \in AnalysisObjects : GatewayReturnAnalyze(r)
    \/ /\ pc = "awaiting"
       /\ \E f \in GatewayFailures : GatewayFail(f)

Spec == Init /\ [][Next]_vars

(***************************************************************************)
(* Claims about the route handlers (checked under Spec)                    *)
(***************************************************************************)
Answered == pc = "done" /\ Len(responses) >= 1

Answer == responses[1]

ValidGenerateInput ==
    endpoint = "generate" /\ body.json = "object"
        /\ validateInput(body.prompt).valid

SanitizerRejects ==
    endpoint = "generate" /\ body.json = "object"
        /\ ~validateInput(body.prompt).valid

ValidAnalyzeInput ==
    endpoint = "analyze" /\ body.json = "object" /\ body.todos.isArray
        /\ body.period \in {"today", "week"}

AnalyzeInputError ==
    endpoint = "analyze" /\ body.json = "object"
        /\ (~body.todos.isArray \/ body.period \notin {"today", "week"})

DocumentedStatus(kind) ==
    CASE kind = "auth" -> 401
      [] kind = "quota" -> 429
      [] kind = "timeout" -> 504
      [] kind = "network" -> 503
      [] kind = "model" -> 500

\* C2: when the Gateway call of generate-todo fails with one of the five
\* failure kinds, the response status is the documented one for that kind:
\* auth 401, quota or rate limit 429, timeout 504, network 503, model or
\* unclassified 500
C2_DocumentedStatusPerKind ==
    (Answered /\ endpoint = "generate" /\ gwOutcome.kind = "fail") =>
        Answer.status = DocumentedStatus(gwOutcome.failure.kind)

\* C3: an input error is answered with 400 without a Gateway call, and every
\* request answered with 400 has made no Gateway call
C3_InputErrorsNeverReachGateway ==
    Answered =>
        /\ (SanitizerRejects \/ AnalyzeInputError) =>
               Answer.status = 400 /\ gatewayCalls = 0
        /\ Answer.status = 400 => gatewayCalls = 0

\* C4: analyze-todos with an empty todos array and a valid period answers
\* with the canned analysis (summary chosen by the period, no urgent task,
\* two fixed insights, two fixed recommendations) and never calls the Gateway
C4_EmptyListCanned ==
    (ValidAnalyzeInput /\ Len(body.todos.list) = 0) =>
        /\ gatewayCalls = 0
        /\ pc = "done"
        /\ Len(responses) = 1
        /\ Answer.status = 200
        /\ Answer.success
        /\ Answer.data.kind = "analysis"
        /\ Answer.data.analysis.summary =
               (IF body.period = "today" THEN "no todos registered today"
                ELSE "no todos registered this week")
        /\ Answer.data.analysis.urgentTasks = <<>>
        /\ Answer.data.analysis.insights =
               <<"you have not added any todo yet", "try adding a new todo">>
        /\ Answer.data.analysis.recommendations =
               <<"add todos to manage them systematically",
                 "the AI generation feature makes it easier">>

\* an empty list has been answered while the API key was absent
C4_Witness ==
    /\ Answered
    /\ ValidAnalyzeInput
    /\ Len(body.todos.list) = 0
    /\ body.period = "week"
    /\ ~apiKey
    /\ Answer.status = 200

\* C5 as stated: with the API key absent every request with valid input is
\* answered with 500 and success false, without a Gateway call
C5_MissingKeyAlways500 ==
    (Answered /\ ~apiKey /\ (ValidGenerateInput \/ ValidAnalyzeInput)) =>
        /\ Answer.status = 500
        /\ ~Answer.success
        /\ gatewayCalls = 0

\* C5 amended: with the API key absent no request with valid input calls the
\* Gateway; it is answered with 500 and success false, except an
\* analyze-todos request with an empty todos array, which is answered with
\* the canned success
C5_MissingKey500UnlessEmptyList ==
    (~apiKey /\ (ValidGenerateInput \/ ValidAnalyzeInput)) =>
        /\ gatewayCalls = 0
        /\ pc = "done"
        /\ Len(responses) = 1
        /\ IF endpoint = "analyze" /\ Len(body.todos.list) = 0
           THEN Answer.status = 200 /\ Answer.success
           ELSE Answer.status = 500 /\ ~Answer.success
                    /\ Answer.error = "AI service is not configured"

\* a non-empty list has been answered with 500 while the API key was absent
C5_Witness ==
    /\ Answered
    /\ ~apiKey
    /\ ValidAnalyzeInput
    /\ Len(body.todos.list) > 0
    /\ Answer.status = 500
    /\ gatewayCalls = 0

\* C6: a handler calls the Gateway at most once and returns exactly one
\* response; after a Gateway failure it makes no further call
C6_OneCallOneResponse ==
    /\ gatewayCalls <= 1
    /\ Len(responses) <= 1
    /\ pc = "done" => Len(responses) = 1
    /\ pc = "awaiting" => (Len(responses) = 0 /\ gatewayCalls = 1)
    /\ gwOutcome.kind # "none" => (gatewayCalls = 1 /\ pc = "done")

\* a Gateway failure has been answered
C6_Witness ==
    /\ pc = "done"
    /\ gwOutcome.kind = "fail"
    /\ gatewayCalls = 1
    /\ Len(responses) = 1

\* the literal messages each handler can answer with, by status
LiteralMessages(ep, status) ==
    IF ep = "generate"
    THEN CASE status = 400 ->
                {"enter a valid task description",
                 "too short, minimum 2 characters",
                 "too long, maximum 500 characters",
                 "must contain valid characters",
                 "request data format is not valid"}
           [] status = 401 ->
                {"AI service authentication failed, contact the administrator"}
           [] status = 429 -> {"AI service quota exceeded, try again later"}
           [] status = 504 -> {"request timed out, try again"}
           [] status = 503 ->
                {"network connection failed, check the connection"}
           [] status = 500 ->
                {"AI service is not configured",
                 "an error occurred during AI processing, try again",
                 "an error occurred while generating the todo"}
           [] OTHER -> {}
    ELSE CASE status = 400 ->
                {"a valid todo list is required",
                 "period must be 'today' or 'week'"}
           [] status = 401 -> {"AI service authentication failed"}
           [] status = 429 -> {"AI service quota exceeded, try again later"}
           [] status = 500 ->
                {"AI service is not configured",
                 "an error occurred while analyzing the todos"}
           [] OTHER -> {}

\* C7: a response is either 200 with success true and data, or a non-200
\* status with success false and an error that is one of the handler's
\* literal messages, whatever the exception was
C7_ResponseShape ==
    \A i \in 1..Len(responses) :
        LET r == responses[i] IN
        /\ r.success <=> r.status = 200
        /\ r.success => (r.data.kind # "none" /\ r.error = NoError)
        /\ ~r.success =>
               /\ r.data.kind = "none"
               /\ r.error \in LiteralMessages(endpoint, r.status)

\* an unclassified Gateway failure has been answered by generate-todo
C7_Witness ==
    /\ Answered
    /\ endpoint = "generate"
    /\ gwOutcome.kind = "fail"
    /\ gwOutcome.failure.error.has = {}
    /\ gwOutcome.failure.error.code = "none"
    /\ Answer.status = 500

\* C14: every successful analyze-todos response, canned or produced from the
\* Gateway's result, carries at most 5 urgentTasks and between 3 and 7
\* insights and between 3 and 7 recommendations
C14_AnalysisSizes ==
    (Answered /\ endpoint = "analyze" /\ Answer.status = 200) =>
        /\ Len(Answer.data.analysis.urgentTasks) <= 5
        /\ Len(Answer.data.analysis.insights) \in 3..7
        /\ Len(Answer.data.analysis.recommendations) \in 3..7

HasAuthMarker(e) == e.has \cap {"API key", "authentication"} # {}

HasQuotaMarker(e) == e.has \cap {"quota", "rate limit", "429"} # {}

C22_DateReferences ==
    (endpoint = "generate" /\ gatewayCalls >= 1) =>
        LET d == gwPrompt.dates
            today == (now + KstOffset) \div MinutesPerDay
        IN /\ d.currentDate = today
           /\ d.tomorrowDate = today + 1
           /\ d.dayAfterTomorrowDate = today + 2
           /\ (d.thisFridayDate + 4) % 7 = 5
           /\ d.thisFridayDate - today \in 1..7
           /\ (d.nextMondayDate + 4) % 7 = 1
           /\ d.nextMondayDate - today \in 1..7

C22_Witness ==
    /\ endpoint = "generate"
    /\ gatewayCalls = 1
    /\ (gwPrompt.dates.currentDate + 4) % 7 = 5
    /\ gwPrompt.dates.thisFridayDate = gwPrompt.dates.currentDate + 7
    /\ gwPrompt.dates.nextMondayDate = gwPrompt.dates.currentDate + 3

\* C24: a request made without a signed-in session is never served: it
\* causes no Gateway call and no success response from generate-todo or
\* analyze-todos
C24_OnlySignedInServed ==
    ~session =>
        /\ gatewayCalls = 0
        /\ \A i \in 1..Len(responses) : ~responses[i].success

(***************************************************************************)
(* Specification of the text functions                                     *)
(***************************************************************************)
TextInit ==
    /\ tzOffset = 0
    /\ RepairIdle
    /\ HandlerIdle
    /\ SummaryIdle
    /\ ClientIdle
    /\ txtIn \in PromptValues
    /\ txtPhase = "input"
    /\ txtValid = [valid |-> FALSE, error |-> NoError]
    /\ txtOut = <<>>
    /\ txtOut2 = <<>>

Validate ==
    /\ txtPhase = "input"
    /\ txtValid' = validateInput(txtIn)
    /\ txtPhase' = "validated"
    /\ UNCHANGED <<txtIn, txtOut, txtOut2, tzOffset, repairVars, handlerVars,
                   summaryVars, clientVars>>

Normalize ==
    /\ txtPhase = "validated"
    /\ txtValid.valid
    /\ txtOut' = preprocessInput(txtIn.str)
    /\ txtPhase' = "normalized"
    /\ UNCHANGED <<txtIn, txtValid, txtOut2, tzOffset, repairVars,
                   handlerVars, summaryVars, clientVars>>

NormalizeAgain ==
    /\ txtPhase = "normalized"
    /\ txtOut2' = preprocessInput(txtOut)
    /\ txtPhase' = "renormalized"
    /\ UNCHANGED <<txtIn, txtValid, txtOut, tzOffset, repairVars,
                   handlerVars, summaryVars, clientVars>>

TextNext == Validate \/ Normalize \/ NormalizeAgain

TextSpec == TextInit /\ [][TextNext]_vars

(***************************************************************************)
(* Claims about the text functions (checked under TextSpec)                *)
(***************************************************************************)
IsText(v) == v.type = "string" /\ v.str # <<>>

\* C8: validateInput reports the first failing rule in the order
\* (1) missing, empty or non-string input, (2) trimmed length below 2,
\* (3) raw length above 500, (4) no Hangul, Latin letter or digit in the
\* trimmed text; so a one-character text is invalid, "aa" is valid, a text
\* of raw length 500 made of letters is valid and every text of raw length
\* 501 is invalid.
C8_ValidationOrder ==
    txtPhase # "input" =>
      LET r1 == ~IsText(txtIn)
          r2 == StrLen(trim(txtIn.str)) < 2
          r3 == StrLen(txtIn.str) > 500
          r4 == \A i \in 1..Len(trim(txtIn.str)) :
                    trim(txtIn.str)[i].ch \notin {"a", "h"}
      IN /\ r1 => txtValid = [valid |-> FALSE, error |-> MsgInvalidInput]
         /\ ~r1 /\ r2 => txtValid = [valid |-> FALSE, error |-> MsgTooShort]
         /\ ~r1 /\ ~r2 /\ r3 =>
                txtValid = [valid |-> FALSE, error |-> MsgTooLong]
         /\ ~r1 /\ ~r2 /\ ~r3 /\ r4 =>
                txtValid = [valid |-> FALSE, error |-> MsgNoContent]
         /\ ~r1 /\ ~r2 /\ ~r3 /\ ~r4 => txtValid.valid
         /\ (IsText(txtIn) /\ StrLen(txtIn.str) = 1) => ~txtValid.valid
         /\ txtIn = JsString(<<Run("a", 2)>>) => txtValid.valid
         /\ txtIn = JsString(<<Run("a", 500)>>) => txtValid.valid
         /\ (IsText(txtIn) /\ StrLen(txtIn.str) = 501) => ~txtValid.valid

\* a text longer than 500 characters whose trimmed length is below 2 has been
\* validated: the too-short rule answered before the too-long rule
C8_Witness ==
    /\ txtPhase = "validated"
    /\ IsText(txtIn)
    /\ StrLen(txtIn.str) = 501
    /\ StrLen(trim(txtIn.str)) < 2
    /\ txtValid.error = MsgTooShort

\* C9: preprocessInput is idempotent on every text validateInput accepts
C9_Idempotent ==
    txtPhase = "renormalized" => txtOut2 = txtOut

\* a text that normalization changed has been normalized twice
C9_Witness ==
    /\ txtPhase = "renormalized"
    /\ txtOut # txtIn.str
    /\ \E i \in 1..Len(txtIn.str) : txtIn.str[i].ch = "\n"

\* the normalization C10 describes: runs of blanks and tabs become one
\* space, runs of newlines become one newline
RECURSIVE DropLeadingBlanks(_)
DropLeadingBlanks(t) ==
    IF t = <<>> THEN <<>>
    ELSE IF Head(t).ch \in {" ", "\t"} THEN DropLeadingBlanks(Tail(t))
    ELSE t

RECURSIVE CollapseKeepingNewlines(_)
CollapseKeepingNewlines(t) ==
    IF t = <<>> THEN <<>>
    ELSE IF Head(t).ch \in {" ", "\t"}
         THEN <<Run(" ", 1)>> \o CollapseKeepingNewlines(DropLeadingBlanks(t))
    ELSE IF Head(t).ch = "\n"
         THEN <<Run("\n", 1)>> \o CollapseKeepingNewlines(Tail(t))
    ELSE <<Head(t)>> \o CollapseKeepingNewlines(Tail(t))

\* C10: preprocessInput trims, collapses each run of non-newline white space
\* to one space and each run of newlines to exactly one newline, so two
\* lines separated by newlines keep exactly one newline between them
C10_NewlinesKept ==
    txtPhase = "normalized" =>
        /\ txtOut = CollapseKeepingNewlines(trim(txtIn.str))
        /\ \A k \in {1, 2} :
              txtIn.str = <<Run("a", 1), Run("\n", k), Run("a", 1)>> =>
                  txtOut = <<Run("a", 1), Run("\n", 1), Run("a", 1)>>

(***************************************************************************)
(* TodoSummary: the windows and statistics the browser computes            *)
(***************************************************************************)
MaxSummaryTodos == 4      \* longest todo list given to TodoSummary

MsPerMinute == 60000
MsPerDay == MinutesPerDay * MsPerMinute

\* created_date and due_date are ISO-8601 strings in UTC (timestamptz
\* columns, Date.prototype.toISOString); ms is the instant they denote
NoStamp  == [def |-> FALSE, ms |-> 0]
Stamp(t) == [def |-> TRUE, ms |-> t]

\* new Date(s).getTime()
getTime(s) == s.ms

\* s.split("T")[0] or d.toISOString().split("T")[0]: the calendar day in UTC
isoDay(t) == t \div MsPerDay

\* the calendar day a Date shows in the zone of the process
localDay(t) == (t + tzOffset * MsPerMinute) \div MsPerDay

\* the instant of 00:00:00.000 local time of a calendar day
localMidnight(d) == d * MsPerDay - tzOffset * MsPerMinute

\* Date.prototype.getDay: 0 is Sunday (day 0 of the epoch was a Thursday)
getDay(t) == (localDay(t) + 4) % 7

\* d.setHours(0, 0, 0, 0) and d.setHours(23, 59, 59, 999)
setHoursStart(t) == localMidnight(localDay(t))
setHoursEnd(t) == localMidnight(localDay(t)) + MsPerDay - 1

\* d.setDate(d.getDate() + k)
addDays(t, k) == t + k * MsPerDay

InList(x, list) == \E i \in 1..Len(list) : list[i] = x

getTodayTodos(todos, t) ==
    LET today == setHoursStart(t)
        todayStr == isoDay(today)
        keep(todo) ==
            \/ todo.created_date.def
                   /\ isoDay(getTime(todo.created_date)) = todayStr
            \/ todo.due_date.def /\ isoDay(getTime(todo.due_date)) = todayStr
    IN SelectSeq(todos, keep)

\* a week whose Monday is always 1 - currentDay days away
getWeekTodosSundayAhead(todos, t) ==
    LET currentDay == getDay(t)
        mondayOffset == 1 - currentDay
        monday == setHoursStart(addDays(t, mondayOffset))
        sunday == setHoursEnd(addDays(monday, 6))
        inWeek(s) == s.def /\ getTime(s) >= monday /\ getTime(s) <= sunday
        keep(todo) == inWeek(todo.created_date) \/ inWeek(todo.due_date)
    IN SelectSeq(todos, keep)

getWeekTodos(todos, t) ==
    LET currentDay == getDay(t)
        mondayOffset == IF currentDay = 0 THEN -6 ELSE 1 - currentDay
        monday == setHoursStart(addDays(t, mondayOffset))
        sunday == setHoursEnd(addDays(monday, 6))
        inWeek(s) == s.def /\ getTime(s) >= monday /\ getTime(s) <= sunday
        keep(todo) == inWeek(todo.created_date) \/ inWeek(todo.due_date)
    IN SelectSeq(todos, keep)

\* a rounding that drops the fraction
MathFloor(num, den) == num \div den

\* Math.round(num / den): the nearest integer, a half going up
MathRound(num, den) == (2 * num + den) \div (2 * den)

IsCompleted(todo) == todo.completed
IsIncomplete(todo) == ~todo.completed

\* an urgent set that leaves out the todos due today
getStatsStrictlyBefore(targetTodos, t) ==
    LET total == Len(targetTodos)
        completed == Len(SelectSeq(targetTodos, IsCompleted))
        incomplete == SelectSeq(targetTodos, IsIncomplete)
        hasPriority(p) == LET is(todo) == todo.priority = p
                          IN SelectSeq(incomplete, is)
        today == setHoursStart(t)
        isUrgent(todo) ==
            todo.due_date.def
                /\ setHoursStart(getTime(todo.due_date)) < today
    IN [total |-> total,
        completed |-> completed,
        incomplete |-> Len(incomplete),
        completionRate |-> IF total > 0
                           THEN MathRound(completed * 100, total) ELSE 0,
        highPriority |-> hasPriority("high"),
        mediumPriority |-> hasPriority("medium"),
        lowPriority |-> hasPriority("low"),
        urgent |-> SelectSeq(incomplete, isUrgent)]

getStats(targetTodos, t) ==
    LET total == Len(targetTodos)
        completed == Len(SelectSeq(targetTodos, IsCompleted))
        incomplete == SelectSeq(targetTodos, IsIncomplete)
        hasPriority(p) == LET is(todo) == todo.priority = p
                          IN SelectSeq(incomplete, is)
        today == setHoursStart(t)
        isUrgent(todo) ==
            todo.due_date.def
                /\ setHoursStart(getTime(todo.due_date)) <= today
    IN [total |-> total,
        completed |-> completed,
        incomplete |-> Len(incomplete),
        completionRate |-> IF total > 0
                           THEN MathRound(completed * 100, total) ELSE 0,
        highPriority |-> hasPriority("high"),
        mediumPriority |-> hasPriority("medium"),
        lowPriority |-> hasPriority("low"),
        urgent |-> SelectSeq(incomplete, isUrgent)]

\* one render of the component
TodoSummary(todos, t) ==
    LET todayTodos == getTodayTodos(todos, t)
        weekTodos == getWeekTodos(todos, t)
    IN [rendered |-> TRUE,
        todayTodos |-> todayTodos,
        weekTodos |-> weekTodos,
        todayStats |-> getStats(todayTodos, t),
        weekStats |-> getStats(weekTodos, t)]

(***************************************************************************)
(* analyze-todos: the statistics computed for the prompt                   *)
(***************************************************************************)
\* JavaScript values held by the two count objects
Num(n)       == [type |-> "number", n |-> n]
Undefined    == [type |-> "undefined", n |-> 0]
\* a function inherited from Object.prototype, and the string that function
\* turns into when n times "+ 1" is applied to it
InheritedFunction == [type |-> "function", n |-> 0]
Text(n)      == [type |-> "string", n |-> n]

\* property names every object literal inherits from Object.prototype
InheritedNames == {"constructor"}

\* {}
EmptyObject == <<>>

\* obj[key]
getProperty(obj, key) ==
    IF key \in DOMAIN obj THEN obj[key]
    ELSE IF key \in InheritedNames THEN InheritedFunction
    ELSE Undefined

\* obj[key] = v
setProperty(obj, key, v) ==
    [k \in DOMAIN obj \cup {key} |-> IF k = key THEN v ELSE obj[k]]

\* v || 0
orZero(v) ==
    IF v.type = "undefined" \/ (v.type = "number" /\ v.n = 0) THEN Num(0)
    ELSE v

\* x + 1: addition of numbers, concatenation for everything else
plusOne(x) == IF x.type = "number" THEN Num(x.n + 1) ELSE Text(x.n + 1)

\* ((c / t) * 100).toFixed(1), kept as the number of tenths
toFixedOne(c, t) == (2 * c * 1000 + t) \div (2 * t)

\* t.category.forEach(...) of one todo
RECURSIVE forEachCategory(_, _, _)
forEachCategory(category, completed, acc) ==
    IF category = <<>> THEN acc
    ELSE LET cat == Head(category)
             count == setProperty(acc.categoryCount, cat,
                          plusOne(orZero(getProperty(acc.categoryCount, cat))))
             done == IF completed
                     THEN setProperty(acc.categoryCompleted, cat,
                              plusOne(orZero(getProperty(acc.categoryCompleted,
                                                         cat))))
                     ELSE acc.categoryCompleted
         IN forEachCategory(Tail(category), completed,
                            [categoryCount |-> count,
                             categoryCompleted |-> done])

\* todos.forEach(...)
RECURSIVE forEachTodo(_, _)
forEachTodo(todos, acc) ==
    IF todos = <<>> THEN acc
    ELSE forEachTodo(Tail(todos),
                     forEachCategory(Head(todos).category,
                                     Head(todos).completed, acc))

\* the entries of categoryStats: count and completed of every category
categoryStats(todos) ==
    LET acc == forEachTodo(todos, [categoryCount |-> EmptyObject,
                                   categoryCompleted |-> EmptyObject])
    IN [cat \in DOMAIN acc.categoryCount |->
           [count |-> acc.categoryCount[cat],
            completed |-> orZero(getProperty(acc.categoryCompleted, cat))]]

\* the day number of kstTime.toISOString().split('T')[0], now in ms
currentDateOf(t) == currentDate(t \div MsPerMinute)

\* new Date(currentDate): a date-only string is 00:00 UTC of that day
newDateOfDay(day) == day * MsPerDay

\* Date.prototype.getHours: the hour the zone of the process shows
getHours(t) == ((t + tzOffset * MsPerMinute) % MsPerDay) \div (60 * MsPerMinute)

overdueTodos(todos, t) ==
    LET keep(todo) ==
            /\ todo.due_date.def /\ ~todo.completed
            /\ getTime(todo.due_date) < newDateOfDay(currentDateOf(t))
    IN SelectSeq(todos, keep)

dueTodayTodos(todos, t) ==
    LET keep(todo) ==
            /\ todo.due_date.def /\ ~todo.completed
            /\ isoDay(getTime(todo.due_date)) = currentDateOf(t)
    IN SelectSeq(todos, keep)

dueThisWeekTodos(todos, t) ==
    LET kstTime == t + KstOffset * MsPerMinute
        weekEnd == addDays(kstTime, 7)
        keep(todo) ==
            /\ todo.due_date.def /\ ~todo.completed
            /\ getTime(todo.due_date) >= newDateOfDay(currentDateOf(t))
            /\ getTime(todo.due_date) <= weekEnd
    IN SelectSeq(todos, keep)

morningTodos(todos) ==
    LET keep(todo) ==
            /\ todo.due_date.def
            /\ getHours(getTime(todo.due_date)) >= 6
            /\ getHours(getTime(todo.due_date)) < 12
    IN SelectSeq(todos, keep)

afternoonTodos(todos) ==
    LET keep(todo) ==
            /\ todo.due_date.def
            /\ getHours(getTime(todo.due_date)) >= 12
            /\ getHours(getTime(todo.due_date)) < 18
    IN SelectSeq(todos, keep)

\* an evening bucket that starts at noon
eveningTodosFromNoon(todos) ==
    LET keep(todo) ==
            /\ todo.due_date.def
            /\ getHours(getTime(todo.due_date)) >= 12
            /\ getHours(getTime(todo.due_date)) < 24
    IN SelectSeq(todos, keep)

eveningTodos(todos) ==
    LET keep(todo) ==
            /\ todo.due_date.def
            /\ getHours(getTime(todo.due_date)) >= 18
            /\ getHours(getTime(todo.due_date)) < 24
    IN SelectSeq(todos, keep)

statistics(todos, t) ==
    LET totalTodos == Len(todos)
        completedTodos == Len(SelectSeq(todos, IsCompleted))
    IN [computed |-> TRUE,
        totalTodos |-> totalTodos,
        completedTodos |-> completedTodos,
        incompleteTodos |-> totalTodos - completedTodos,
        completionRate |-> IF totalTodos > 0
                           THEN toFixedOne(completedTodos, totalTodos)
                           ELSE 0,
        overdueTodos |-> overdueTodos(todos, t),
        overdueCount |-> Len(overdueTodos(todos, t)),
        dueTodayCount |-> Len(dueTodayTodos(todos, t)),
        dueThisWeekCount |-> Len(dueThisWeekTodos(todos, t)),
        categoryStats |-> categoryStats(todos),
        morningCount |-> Len(morningTodos(todos)),
        afternoonCount |-> Len(afternoonTodos(todos)),
        eveningCount |-> Len(eveningTodos(todos))]

(***************************************************************************)
(* Todo lists and instants                                                 *)
(***************************************************************************)
\* the instant at which a clock in UTC+9 shows this day, minute and ms
KstInstant(day, minute, ms) ==
    day * MsPerDay + minute * MsPerMinute + ms - KstOffset * MsPerMinute

SummaryNows == {KstInstant(BaseDay - 1, 600, 0),
                KstInstant(BaseDay, 480, 0),
                KstInstant(BaseDay + 2, 600, 0)}

Todo(done, prio, cat, due, created) ==
    [completed |-> done, priority |-> prio, category |-> cat,
     due_date |-> due, created_date |-> Stamp(created)]

SummaryTodoItems ==
    {Todo(FALSE, "high", <<"work">>, NoStamp,
          KstInstant(BaseDay + 2, 600, 0)),
     Todo(TRUE, "medium", <<"work", "study">>, NoStamp,
          KstInstant(BaseDay + 2, 600, 0)),
     Todo(TRUE, "low", <<>>, Stamp(KstInstant(BaseDay + 7, 0, -1)),
          KstInstant(BaseDay - 9, 600, 0)),
     Todo(FALSE, "medium", <<"study">>, Stamp(KstInstant(BaseDay + 7, 0, 1)),
          KstInstant(BaseDay - 9, 600, 0)),
     Todo(FALSE, "high", <<"constructor">>,
          Stamp(KstInstant(BaseDay + 1, 600, 0)),
          KstInstant(BaseDay - 1, 600, 0)),
     Todo(TRUE, "low", <<"work">>, Stamp(KstInstant(BaseDay + 1, 600, 0)),
          KstInstant(BaseDay + 2, 600, 0)),
     Todo(FALSE, "low", <<"work", "work">>,
          Stamp(KstInstant(BaseDay, 0, 0)), KstInstant(BaseDay, 480, 0)),
     Todo(TRUE, "high", <<"study">>, NoStamp,
          KstInstant(BaseDay - 1, 600, 0))}

SummaryTodoLists ==
    UNION {[1..n -> SummaryTodoItems] : n \in 0..MaxSummaryTodos}

BrowserOffsets == {0, KstOffset}

(***************************************************************************)
(* Specification of the summary and the statistics                         *)
(***************************************************************************)
SummaryInit ==
    /\ tzOffset \in BrowserOffsets
    /\ sumTodos \in SummaryTodoLists
    /\ sumNow \in SummaryNows
    /\ sumPhase = "input"
    /\ sumView = [rendered |-> FALSE]
    /\ sumStats = [computed |-> FALSE]

\* TodoSummary renders: both windows and their statistics
Render ==
    /\ sumPhase = "input"
    /\ sumView' = TodoSummary(sumTodos, sumNow)
    /\ sumPhase' = "rendered"
    /\ UNCHANGED <<sumTodos, sumNow, sumStats, tzOffset, textVars,
                   repairVars, handlerVars, clientVars>>

\* analyze-todos computes its statistics for a list that is not empty
Statistics ==
    /\ sumPhase = "rendered"
    /\ Len(sumTodos) > 0
    /\ sumStats' = statistics(sumTodos, sumNow)
    /\ sumPhase' = "analyzed"
    /\ UNCHANGED <<sumTodos, sumNow, sumView, tzOffset, textVars,
                   repairVars, handlerVars, clientVars>>

SummarySpecInit ==
    SummaryInit /\ TextIdle /\ RepairIdle /\ HandlerIdle /\ ClientIdle

SummaryNext == Render \/ Statistics

SummarySpec == SummarySpecInit /\ [][SummaryNext]_vars

(***************************************************************************)
(* Claims about the summary and the statistics (checked under SummarySpec) *)
(***************************************************************************)
Rendered == sumPhase \in {"rendered", "analyzed"}

Analyzed == sumPhase = "analyzed"

CountCompleted(list) == Cardinality({i \in 1..Len(list) : list[i].completed})

\* r is num / den rounded to the nearest integer, a half going up
IsNearest(r, num, den) ==
    /\ -den <= 2 * (num - r * den)
    /\ 2 * (num - r * den) < den

\* the figures of getStats for one target list
RateIsRounded(target, stats) ==
    /\ stats.total = Len(target)
    /\ stats.completed = CountCompleted(target)
    /\ stats.completed + stats.incomplete = stats.total
    /\ stats.completionRate \in 0..100
    /\ stats.total = 0 => stats.completionRate = 0
    /\ stats.total > 0 =>
           IsNearest(stats.completionRate, 100 * stats.completed, stats.total)

\* C16 as stated: completionRate is round(100 * completed / total), or 0 for
\* an empty list, lies in 0..100, and completed + incomplete = total, in
\* getStats and in the statistics of analyze-todos alike
C16_RateRoundedEverywhere ==
    /\ Rendered =>
           /\ RateIsRounded(sumView.todayTodos, sumView.todayStats)
           /\ RateIsRounded(sumView.weekTodos, sumView.weekStats)
    /\ Analyzed =>
           /\ sumStats.completedTodos + sumStats.incompleteTodos
                  = sumStats.totalTodos
           /\ sumStats.completionRate % 10 = 0
           /\ IsNearest(sumStats.completionRate \div 10,
                        100 * sumStats.completedTodos, sumStats.totalTodos)

\* C16 amended: getStats gives round(100 * completed / total), 0 for an empty
\* list, in 0..100, with completed + incomplete = total; the statistics of
\* analyze-todos give the percentage rounded to one decimal, not to an integer
C16_RateRoundedInGetStats ==
    /\ Rendered =>
           /\ RateIsRounded(sumView.todayTodos, sumView.todayStats)
           /\ RateIsRounded(sumView.weekTodos, sumView.weekStats)
    /\ Analyzed =>
           /\ sumStats.totalTodos = Len(sumTodos)
           /\ sumStats.completedTodos = CountCompleted(sumTodos)
           /\ sumStats.completedTodos + sumStats.incompleteTodos
                  = sumStats.totalTodos
           /\ sumStats.completionRate \in 0..1000
           /\ IsNearest(sumStats.completionRate,
                        1000 * sumStats.completedTodos, sumStats.totalTodos)

C16_Witness ==
    /\ Analyzed
    /\ sumView.weekStats.total = 4
    /\ sumView.weekStats.completed = 3
    /\ sumView.weekStats.completionRate = 75
    /\ sumView.todayStats.total = 0
    /\ sumView.todayStats.completionRate = 0
    /\ sumStats.completionRate = 750

\* the calendar day a clock in UTC+9 shows
KstDay(t) == (t + KstOffset * MsPerMinute) \div MsPerDay

\* C17: with local time UTC+9, a todo is in the today window exactly when the
\* local civil date of its creation or of its due timestamp is the current
\* local civil date; a todo created at the current instant is in the window
C17_TodayWindowLocal ==
    (Rendered /\ tzOffset = KstOffset) =>
        \A i \in 1..Len(sumTodos) :
            LET todo == sumTodos[i] IN
            InList(todo, sumView.todayTodos) <=>
                \/ KstDay(todo.created_date.ms) = KstDay(sumNow)
                \/ todo.due_date.def
                       /\ KstDay(todo.due_date.ms) = KstDay(sumNow)

\* the Monday of the week of a calendar day, as a calendar day
MondayOf(day) ==
    LET weekday == (day + 4) % 7
    IN IF weekday = 0 THEN day - 6 ELSE day + (1 - weekday)

WeekStart == localMidnight(MondayOf(localDay(sumNow)))

WeekEnd == localMidnight(MondayOf(localDay(sumNow)) + 7) - 1

InWeek(s) == s.def /\ WeekStart <= s.ms /\ s.ms <= WeekEnd

\* C18: the week window is Monday 00:00:00.000 to Sunday 23:59:59.999 local
\* of the week containing today, and a todo is in it exactly when its
\* creation or due timestamp lies in that closed interval
C18_WeekWindow ==
    Rendered =>
        /\ (MondayOf(localDay(sumNow)) + 4) % 7 = 1
        /\ localDay(sumNow) - MondayOf(localDay(sumNow)) \in 0..6
        /\ \A i \in 1..Len(sumTodos) :
               InList(sumTodos[i], sumView.weekTodos) <=>
                   InWeek(sumTodos[i].created_date)
                       \/ InWeek(sumTodos[i].due_date)

C18_Witness ==
    /\ Rendered
    /\ tzOffset = KstOffset
    /\ \E i, j \in 1..Len(sumTodos) :
           /\ sumTodos[i].due_date = Stamp(WeekEnd)
           /\ ~InWeek(sumTodos[i].created_date)
           /\ InList(sumTodos[i], sumView.weekTodos)
           /\ sumTodos[j].due_date = Stamp(WeekEnd + 2)
           /\ ~InList(sumTodos[j], sumView.weekTodos)

IsUrgent(todo) ==
    /\ ~todo.completed
    /\ todo.due_date.def
    /\ localDay(todo.due_date.ms) <= localDay(sumNow)

UrgentIsExact(target, stats) ==
    /\ \A i \in 1..Len(target) :
           InList(target[i], stats.urgent) <=> IsUrgent(target[i])
    /\ \A i \in 1..Len(stats.urgent) : InList(stats.urgent[i], target)

\* C19: the urgent set of getStats holds exactly the todos that are not
\* completed and whose due date's civil date is today or earlier
C19_UrgentSet ==
    Rendered =>
        /\ UrgentIsExact(sumView.todayTodos, sumView.todayStats)
        /\ UrgentIsExact(sumView.weekTodos, sumView.weekStats)

C19_Witness ==
    /\ Rendered
    /\ \E i, j \in 1..Len(sumView.weekTodos) :
           LET a == sumView.weekTodos[i]
               b == sumView.weekTodos[j]
           IN /\ a.due_date.def /\ b.due_date = a.due_date
              /\ localDay(a.due_date.ms) = localDay(sumNow) - 1
              /\ ~a.completed /\ b.completed
              /\ InList(a, sumView.weekStats.urgent)
              /\ ~InList(b, sumView.weekStats.urgent)

RECURSIVE SumOfLengths(_)
SumOfLengths(todos) ==
    IF todos = <<>> THEN 0
    ELSE Len(Head(todos).category) + SumOfLengths(Tail(todos))

RECURSIVE SumOfCounts(_, _)
SumOfCounts(stats, cats) ==
    IF cats = {} THEN 0
    ELSE LET c == CHOOSE x \in cats : TRUE
         IN stats[c].count.n + SumOfCounts(stats, cats \ {c})

\* how often the label occurs in the category arrays of the list
Occurrences(todos, cat, onlyCompleted) ==
    Cardinality({p \in (1..Len(todos)) \X (1..2) :
                    /\ p[2] <= Len(todos[p[1]].category)
                    /\ todos[p[1]].category[p[2]] = cat
                    /\ onlyCompleted => todos[p[1]].completed})

\* C20: a todo with N category labels adds 1 to the count of each of them
\* (and to its completed count when the todo is completed): the counts sum
\* to the sum of the category-array lengths and completed is at most count
C20_CategoryFanOut ==
    Analyzed =>
        LET stats == sumStats.categoryStats IN
        /\ \A cat \in DOMAIN stats :
               /\ stats[cat].count = Num(Occurrences(sumTodos, cat, FALSE))
               /\ stats[cat].completed
                      = Num(Occurrences(sumTodos, cat, TRUE))
               /\ stats[cat].completed.n <= stats[cat].count.n
        /\ SumOfCounts(stats, DOMAIN stats) = SumOfLengths(sumTodos)

\* the same, for lists without a label that Object.prototype defines
C20_FanOutOfOwnNames ==
    (Analyzed /\ \A i \in 1..Len(sumTodos) :
                     \A k \in 1..Len(sumTodos[i].category) :
                         sumTodos[i].category[k] \notin InheritedNames) =>
        C20_CategoryFanOut

HourIn(todo, lo, hi) ==
    /\ todo.due_date.def
    /\ getHours(todo.due_date.ms) \in lo..hi

CountWhere(list, Test(_)) == Cardinality({i \in 1..Len(list) : Test(list[i])})

\* C21: each todo with a due date is counted in at most one due-hour bucket,
\* by the hour of its due timestamp: morning 6..11, afternoon 12..17, evening
\* 18..23; hours 0..5 and todos without a due date are in no bucket, so the
\* three counts sum to at most the number of todos that have a due date
C21_HourBuckets ==
    Analyzed =>
        LET morning(todo) == HourIn(todo, 6, 11)
            afternoon(todo) == HourIn(todo, 12, 17)
            evening(todo) == HourIn(todo, 18, 23)
            dated(todo) == todo.due_date.def
        IN /\ sumStats.morningCount = CountWhere(sumTodos, morning)
           /\ sumStats.afternoonCount = CountWhere(sumTodos, afternoon)
           /\ sumStats.eveningCount = CountWhere(sumTodos, evening)
           /\ sumStats.morningCount + sumStats.afternoonCount
                  + sumStats.eveningCount <= CountWhere(sumTodos, dated)

C21_Witness ==
    /\ Analyzed
    /\ sumStats.morningCount + sumStats.afternoonCount
           + sumStats.eveningCount >= 1
    /\ \E i, j \in 1..Len(sumTodos) :
           /\ HourIn(sumTodos[i], 0, 5)
           /\ ~sumTodos[j].due_date.def
    /\ sumStats.morningCount + sumStats.afternoonCount
           + sumStats.eveningCount
           < Cardinality({i \in 1..Len(sumTodos) : sumTodos[i].due_date.def})

\* C26: an incomplete todo with a due date is counted in overdueCount exactly
\* when the UTC+9 civil date of its due timestamp is strictly before today's
\* UTC+9 civil date, and no todo is counted both as overdue and as due today
C26_OverdueByCivilDate ==
    Analyzed =>
        /\ \A i \in 1..Len(sumTodos) :
               LET todo == sumTodos[i] IN
               (todo.due_date.def /\ ~todo.completed) =>
                   (InList(todo, sumStats.overdueTodos)
                        <=> KstDay(todo.due_date.ms) < KstDay(sumNow))
        /\ \A i \in 1..Len(sumTodos) :
               ~(InList(sumTodos[i], sumStats.overdueTodos)
                     /\ InList(sumTodos[i], dueTodayTodos(sumTodos, sumNow)))

(***************************************************************************)
(* HomePage: the filtered and sorted list (src/app/page.tsx)               *)
(*                                                                         *)
(* A title, a description and the search query are sequences of one-       *)
(* character strings.  A todo of the page is a record                      *)
(*   [id, title, description, completed, priority, due_date, created_date] *)
(* whose dates are Stamp(ms) or NoStamp (null).                            *)
(***************************************************************************)
MaxListTodos == 3

NoText == [def |-> FALSE, text |-> <<>>]
SomeText(t) == [def |-> TRUE, text |-> t]

\* String.prototype.toLowerCase over the letters the inputs use
lowerChar(c) == IF c = "A" THEN "a" ELSE IF c = "B" THEN "b" ELSE c
toLowerCase(str) == [i \in 1..Len(str) |-> lowerChar(str[i])]

\* String.prototype.includes of a string of characters
stringIncludes(str, query) ==
    \E i \in 1..(Len(str) - Len(query) + 1) :
        SubSeq(str, i, i + Len(query) - 1) = query

\* Array.prototype.filter
filter(list, Keep(_)) == SelectSeq(list, Keep)

priorityOrder(p) == IF p = "high" THEN 0 ELSE IF p = "medium" THEN 1 ELSE 2

\* a comparator that puts the todos without a due date first
compareUndatedFirst(a, b, by) ==
    IF by = "priority"
    THEN priorityOrder(a.priority) - priorityOrder(b.priority)
    ELSE IF by = "due_date"
    THEN IF ~a.due_date.def THEN 0 - 1
         ELSE IF ~b.due_date.def THEN 1
         ELSE getTime(a.due_date) - getTime(b.due_date)
    ELSE getTime(b.created_date) - getTime(a.created_date)

\* the comparator handed to filtered.sort
compare(a, b, by) ==
    IF by = "priority"
    THEN priorityOrder(a.priority) - priorityOrder(b.priority)
    ELSE IF by = "due_date"
    THEN IF ~a.due_date.def THEN 1
         ELSE IF ~b.due_date.def THEN 0 - 1
         ELSE getTime(a.due_date) - getTime(b.due_date)
    ELSE getTime(b.created_date) - getTime(a.created_date)

\* list with x put in after its first k elements
InsertAt(list, k, x) ==
    SubSeq(list, 1, k) \o <<x>> \o SubSeq(list, k + 1, Len(list))

Reverse(list) == [i \in 1..Len(list) |-> list[Len(list) + 1 - i]]

(* Array.prototype.sort of a short array.  The comparator is not a         *)
(* consistent one (two todos without a due date are each "greater" than    *)
(* the other), so the order is the one the engine's algorithm produces:    *)
(*   "v8"            count the leading run (reversing a strictly           *)
(*                   descending one), then binary insertion, comparing     *)
(*                   (pivot, element);                                     *)
(*   "spidermonkey"  linear insertion from the right, comparing            *)
(*                   (element, item).                                      *)
Engines == {"v8", "spidermonkey"}

\* binary insertion: the number of elements of list[1..right] kept before
\* the pivot
RECURSIVE BinaryPosition(_, _, _, _, _)
BinaryPosition(list, pivot, left, right, by) ==
    IF left >= right THEN left
    ELSE LET mid == left + ((right - left) \div 2)
         IN  IF compare(pivot, list[mid + 1], by) < 0
             THEN BinaryPosition(list, pivot, left, mid, by)
             ELSE BinaryPosition(list, pivot, mid + 1, right, by)

\* linear insertion: the number of elements of list[1..j] kept before item
RECURSIVE LinearPosition(_, _, _, _)
LinearPosition(list, item, j, by) ==
    IF j = 0 THEN 0
    ELSE IF compare(list[j], item, by) <= 0 THEN j
    ELSE LinearPosition(list, item, j - 1, by)

\* insertion sort of list whose first `start` elements are in order
RECURSIVE InsertionSort(_, _, _, _)
InsertionSort(list, start, by, eng) ==
    IF start >= Len(list) THEN list
    ELSE LET pivot == list[start + 1]
             k == IF eng = "v8"
                  THEN BinaryPosition(list, pivot, 0, start, by)
                  ELSE LinearPosition(list, pivot, start, by)
         IN  InsertionSort(InsertAt(SubSeq(list, 1, start), k, pivot)
                               \o SubSeq(list, start + 2, Len(list)),
                           start + 1, by, eng)

\* the length of the run list[1..], continued from position idx
RECURSIVE RunLength(_, _, _, _)
RunLength(list, idx, isDescending, by) ==
    IF idx > Len(list) THEN idx - 1
    ELSE LET order == compare(list[idx], list[idx - 1], by)
         IN  IF (isDescending /\ order >= 0) \/ (~isDescending /\ order < 0)
             THEN idx - 1
             ELSE RunLength(list, idx + 1, isDescending, by)

sort(list, by, eng) ==
    IF Len(list) < 2 THEN list
    ELSE IF eng = "v8"
    THEN LET isDescending == compare(list[2], list[1], by) < 0
             run == RunLength(list, 3, isDescending, by)
             made == IF isDescending
                     THEN Reverse(SubSeq(list, 1, run))
                              \o SubSeq(list, run + 1, Len(list))
                     ELSE list
         IN  InsertionSort(made, run, by, eng)
    ELSE InsertionSort(list, 1, by, eng)

\* the three filters of the useMemo, in the order of the local list
filtered(list, query, status, priorities) ==
    LET matches(todo) ==
            \/ stringIncludes(toLowerCase(todo.title), toLowerCase(query))
            \/ /\ todo.description.def
               /\ stringIncludes(toLowerCase(todo.description.text),
                                 toLowerCase(query))
        isActive(todo) == ~todo.completed
        isDone(todo) == todo.completed
        ticked(todo) == todo.priority \in priorities
        searched == IF query # <<>> THEN filter(list, matches) ELSE list
        byStatus == IF status = "active" THEN filter(searched, isActive)
                    ELSE IF status = "completed"
                    THEN filter(searched, isDone)
                    ELSE searched
    IN  IF priorities # {} THEN filter(byStatus, ticked) ELSE byStatus

\* the useMemo of HomePage
filteredAndSortedTodos(list, query, status, priorities, by, eng) ==
    sort(filtered(list, query, status, priorities), by, eng)

\* what TodoList is given
shown == filteredAndSortedTodos(pageTodos, searchQuery, statusFilter,
                                priorityFilters, sortBy, engine)

(***************************************************************************)
(* Specification of the list controls                                      *)
(***************************************************************************)
\* the attributes a todo of the list can have
ListShapes ==
    {[title |-> <<"A">>, description |-> NoText, completed |-> FALSE,
      priority |-> "low", due_date |-> NoStamp],
     [title |-> <<"b">>, description |-> SomeText(<<"a", "B">>),
      completed |-> TRUE, priority |-> "high", due_date |-> NoStamp],
     [title |-> <<"a", "b">>, description |-> NoText, completed |-> FALSE,
      priority |-> "medium", due_date |-> Stamp(2 * MsPerDay)],
     [title |-> <<"B">>, description |-> SomeText(<<>>), completed |-> TRUE,
      priority |-> "high", due_date |-> Stamp(MsPerDay)],
     [title |-> <<"a">>, description |-> NoText, completed |-> FALSE,
      priority |-> "low", due_date |-> Stamp(MsPerDay)]}

\* the i-th row of a list: created one minute after the row before it
ListTodo(i, shape) ==
    [id |-> i, title |-> shape.title, description |-> shape.description,
     completed |-> shape.completed, priority |-> shape.priority,
     due_date |-> shape.due_date, created_date |-> Stamp(i * MsPerMinute)]

ListInputs ==
    UNION {{[i \in 1..n |-> ListTodo(i, f[i])] : f \in [1..n -> ListShapes]}
               : n \in 0..MaxListTodos}

SearchQueries == {<<>>, <<"A">>}
PriorityFilterChoices == {{}, {"high"}, {"high", "low"}}

ListInit ==
    /\ tzOffset = 0
    /\ pageTodos \in ListInputs
    /\ engine \in Engines
    /\ searchQuery = <<>>
    /\ statusFilter = "all"
    /\ priorityFilters = {}
    /\ sortBy = "created_date"

setSortBy(by) ==
    /\ by # sortBy
    /\ sortBy' = by
    /\ UNCHANGED <<pageTodos, searchQuery, statusFilter, priorityFilters,
                   engine, pageVars, authVars, analysisVars, tzOffset,
                   textVars, repairVars, handlerVars, summaryVars>>

setStatusFilter(status) ==
    /\ status # statusFilter
    /\ statusFilter' = status
    /\ UNCHANGED <<pageTodos, searchQuery, priorityFilters, sortBy,
                   engine, pageVars, authVars, analysisVars, tzOffset,
                   textVars, repairVars, handlerVars, summaryVars>>

setPriorityFilters(priorities) ==
    /\ priorities # priorityFilters
    /\ priorityFilters' = priorities
    /\ UNCHANGED <<pageTodos, searchQuery, statusFilter, sortBy,
                   engine, pageVars, authVars, analysisVars, tzOffset,
                   textVars, repairVars, handlerVars, summaryVars>>

setSearchQuery(query) ==
    /\ query # searchQuery
    /\ searchQuery' = query
    /\ UNCHANGED <<pageTodos, statusFilter, priorityFilters, sortBy,
                   engine, pageVars, authVars, analysisVars, tzOffset,
                   textVars, repairVars, handlerVars, summaryVars>>

SortChange == \E by \in {"priority", "due_date", "created_date"} :
                  setSortBy(by)
StatusChange == \E status \in {"all", "active", "completed"} :
                    setStatusFilter(status)
PriorityChange == \E priorities \in PriorityFilterChoices :
                      setPriorityFilters(priorities)
SearchChange == \E query \in SearchQueries : setSearchQuery(query)

ListSpecInit ==
    /\ ListInit /\ PageIdle /\ AuthIdle /\ AnalysisIdle
    /\ TextIdle /\ RepairIdle /\ HandlerIdle /\ SummaryIdle

ListNext == SortChange \/ StatusChange \/ PriorityChange \/ SearchChange

ListSpec == ListSpecInit /\ [][ListNext]_vars

(***************************************************************************)
(* Claims about the sorted list                                            *)
(***************************************************************************)
\* the todos that pass the three filters
Filtered == filtered(pageTodos, searchQuery, statusFilter, priorityFilters)

IsDated(todo) == todo.due_date.def

\* C23: the list sorted by priority has every high todo before every
\* medium todo before every low todo; the list sorted by due_date has every
\* todo without a due date after every todo with one and the dated todos in
\* ascending due order; in both cases the list holds exactly the todos that
\* pass the filters, whichever engine sorts it
C23_SortOrder ==
    /\ sortBy \in {"priority", "due_date"} =>
           /\ Len(shown) = Len(Filtered)
           /\ \A i \in 1..Len(Filtered) : InList(Filtered[i], shown)
    /\ sortBy = "priority" =>
           \A i, j \in 1..Len(shown) :
               i < j => priorityOrder(shown[i].priority)
                            <= priorityOrder(shown[j].priority)
    /\ sortBy = "due_date" =>
           \A i, j \in 1..Len(shown) :
               i < j =>
                   /\ ~(~IsDated(shown[i]) /\ IsDated(shown[j]))
                   /\ (IsDated(shown[i]) /\ IsDated(shown[j]))
                          => getTime(shown[i].due_date)
                                 <= getTime(shown[j].due_date)

\* C23: a list of three or more todos sorted by due_date that arrived with
\* an undated todo first and holds two todos without a due date and a dated
\* one
C23_Witness ==
    /\ sortBy = "due_date"
    /\ Len(shown) >= 3
    /\ ~IsDated(pageTodos[1])
    /\ \E i, j \in 1..Len(shown) :
           i # j /\ ~IsDated(shown[i]) /\ ~IsDated(shown[j])
    /\ \E i \in 1..Len(shown) : IsDated(shown[i])

(***************************************************************************)
(* AuthProvider (src/types/todo.ts), HomePage's auth guards                *)
(* (src/app/page.tsx) and the analysis panel of TodoSummary                *)
(* (src/unnamed/part_002)                                                  *)
(***************************************************************************)
MaxRedirects == 2

Paths == {"/", "/login", "/signup", "/auth/callback"}

\* String.prototype.startsWith over Paths and the public routes
startsWith(path, route) ==
    path = route \/ (path = "/auth/callback" /\ route = "/auth")

isProtectedRoute(path) ==
    LET publicRoutes == {"/login", "/signup", "/auth"}
    IN  ~(\E route \in publicRoutes : startsWith(path, route))

isAuthRoute(path) == path = "/login" \/ path = "/signup"

\* what HomePage renders under the two guards
HomePage(loading, u) ==
    IF loading THEN "spinner" ELSE IF u = "null" THEN "null" ELSE "page"

\* TodoSummary is mounted: HomePage is the page of "/" and renders its body
SummaryMounted(path, loading, u) ==
    path = "/" /\ HomePage(loading, u) = "page"

\* router.replace(to)
replace(queue, to) == Append(queue, to)

\* TodoSummary's state when it mounts
AnalysisReset ==
    /\ tab' = "today"
    /\ analysis' = "null"
    /\ isAnalyzing' = FALSE
    /\ anaError' = FALSE
    /\ anaRequest' = [stage |-> "none"]

\* a render after AuthProvider's state changed: TodoSummary keeps its state
\* while it stays mounted and loses it when HomePage stops rendering it
RenderSummary ==
    IF SummaryMounted(pathname, authLoading, authUser)
           /\ SummaryMounted(pathname', authLoading', authUser')
    THEN UNCHANGED analysisVars
    ELSE AnalysisReset

\* how supabase.auth.getUser() can settle
LookupOutcomes == IF signedIn THEN {"user", "none", "throws"}
                  ELSE {"none", "throws"}

\* initializeAuth after its await: the try, catch and finally blocks
initializeAuth(path, outcome) ==
    /\ path \in lookup
    /\ outcome \in LookupOutcomes
    /\ lookup' = lookup \ {path}
    /\ authLoading' = FALSE
    /\ IF outcome = "throws"
       THEN UNCHANGED <<authUser, redirects>>
       ELSE /\ authUser' = (IF outcome = "user" THEN "user" ELSE "null")
            /\ redirects' =
                   IF outcome = "user" /\ isAuthRoute(path)
                   THEN replace(redirects, "/")
                   ELSE IF outcome = "none" /\ isProtectedRoute(path)
                   THEN replace(redirects, "/login")
                   ELSE redirects
    /\ Len(redirects') <= MaxRedirects
    /\ UNCHANGED <<pathname, signedIn, listVars, pageVars, tzOffset,
                   textVars, repairVars, handlerVars, summaryVars>>
    /\ RenderSummary

\* the onAuthStateChange callback
onAuthStateChange(event) ==
    /\ \/ event = "SIGNED_IN" /\ ~signedIn /\ signedIn' = TRUE
       \/ event = "SIGNED_OUT" /\ signedIn /\ signedIn' = FALSE
       \/ event = "TOKEN_REFRESHED" /\ signedIn /\ signedIn' = TRUE
    /\ authUser' = (IF signedIn' THEN "user" ELSE "null")
    /\ redirects' =
           IF event = "SIGNED_IN"
           THEN IF isAuthRoute(pathname) THEN replace(redirects, "/")
                ELSE redirects
           ELSE IF event = "SIGNED_OUT" THEN replace(redirects, "/login")
           ELSE redirects
    /\ Len(redirects') <= MaxRedirects
    /\ UNCHANGED <<pathname, authLoading, lookup, listVars, pageVars,
                   tzOffset, textVars, repairVars, handlerVars,
                   summaryVars>>
    /\ RenderSummary

\* the router carries out the oldest router.replace(); a new pathname runs
\* the effect again, which starts another initializeAuth
Navigate ==
    /\ redirects # <<>>
    /\ pathname' = Head(redirects)
    /\ redirects' = Tail(redirects)
    /\ lookup' = IF pathname' # pathname THEN lookup \cup {pathname'}
                 ELSE lookup
    /\ UNCHANGED <<authUser, authLoading, signedIn, listVars, pageVars,
                   tzOffset, textVars, repairVars, handlerVars,
                   summaryVars>>
    /\ RenderSummary

\* handleAnalyze up to its await fetch
handleAnalyze ==
    /\ SummaryMounted(pathname, authLoading, authUser)
    /\ ~isAnalyzing
    /\ isAnalyzing' = TRUE
    /\ anaError' = FALSE
    /\ anaRequest' = [stage |-> "sent", period |-> tab]
    /\ UNCHANGED <<tab, analysis, listVars, pageVars, authVars, tzOffset,
                   textVars, repairVars, handlerVars, summaryVars>>

\* handleAnalyze after its awaits: the response says success or not
handleAnalyzeSettles(success) ==
    /\ anaRequest.stage = "sent"
    /\ IF success
       THEN analysis' = anaRequest.period /\ UNCHANGED anaError
       ELSE anaError' = TRUE /\ UNCHANGED analysis
    /\ isAnalyzing' = FALSE
    /\ anaRequest' = [stage |-> "none"]
    /\ UNCHANGED <<tab, listVars, pageVars, authVars, tzOffset,
                   textVars, repairVars, handlerVars, summaryVars>>

handleTabChange(value) ==
    /\ SummaryMounted(pathname, authLoading, authUser)
    /\ value # tab
    /\ tab' = value
    /\ analysis' = "null"
    /\ anaError' = FALSE
    /\ UNCHANGED <<isAnalyzing, anaRequest, listVars, pageVars, authVars,
                   tzOffset, textVars, repairVars, handlerVars,
                   summaryVars>>

(***************************************************************************)
(* Specification of the session and the analysis panel                     *)
(***************************************************************************)
\* the first render at some path: the effect has started initializeAuth
UiInit ==
    /\ tzOffset = 0
    /\ pathname \in Paths
    /\ signedIn \in BOOLEAN
    /\ authUser = "null"
    /\ authLoading = TRUE
    /\ lookup = {pathname}
    /\ redirects = <<>>

LookupSettles == \E path \in Paths : \E outcome \in {"user", "none", "throws"} :
                     initializeAuth(path, outcome)
AuthEvent == \E event \in {"SIGNED_IN", "SIGNED_OUT", "TOKEN_REFRESHED"} :
                 onAuthStateChange(event)
AnalyzeSettles == \E success \in BOOLEAN : handleAnalyzeSettles(success)
TabChange == \E value \in {"today", "week"} : handleTabChange(value)

UiSpecInit ==
    /\ UiInit /\ ListIdle /\ PageIdle /\ AnalysisIdle
    /\ TextIdle /\ RepairIdle /\ HandlerIdle /\ SummaryIdle

UiNext ==
    \/ LookupSettles
    \/ AuthEvent
    \/ Navigate
    \/ handleAnalyze
    \/ AnalyzeSettles
    \/ TabChange

UiSpec == UiSpecInit /\ [][UiNext]_vars

(***************************************************************************)
(* Claims about the session and the analysis panel                         *)
(***************************************************************************)
\* a lookup started under path settles in this step
Settles(path) == path \in lookup /\ path \notin lookup'

\* C27: every step leaves AuthProvider so that, once initialization has
\* finished, a protected path without a user has a redirect to /login
\* issued (also when the lookup itself failed); and a lookup on /login or
\* /signup that finds a user issues a redirect to /
C27_GuardRedirects ==
    [][/\ (~authLoading' /\ authUser' = "null"
               /\ isProtectedRoute(pathname'))
              => (\E i \in 1..Len(redirects') : redirects'[i] = "/login")
       /\ \A path \in {"/login", "/signup"} :
              (Settles(path) /\ authUser' = "user")
                  => redirects' = Append(redirects, "/")]_vars

\* C28: the analysis on display is the one of the selected tab
C28_AnalysisOfSelectedTab == analysis # "null" => analysis = tab

(***************************************************************************)
(* HomePage's handlers, TodoCard and TodoForm (src/app/page.tsx,           *)
(* src/unnamed/part_007, src/components/todo/README.md) with the todos     *)
(* table behind them.                                                      *)
(*                                                                         *)
(* A handler call suspended in an await is a record of `calls`:            *)
(*   kind   "toggle" | "delete" | "submit"                                 *)
(*   stage  "sent"      the storage request is on its way                  *)
(*          "replied"   the table has processed it (ok says how)           *)
(*          "fetching"  the select of fetchTodos is on its way             *)
(*          "fetched"   the table has answered the select (ok, data)       *)
(*   card   the TodoCard that awaits the call is still mounted             *)
(* Requests travel independently, so the table may process them, and the   *)
(* browser may receive the answers, in any order.                          *)
(***************************************************************************)
MaxPageTodos == 2
MaxCalls == 2

PageIds == 1..MaxPageTodos
Slots == 1..MaxCalls

PageTodo(id, title, done) ==
    [id |-> id, title |-> title, description |-> NoText,
     completed |-> done, priority |-> "medium", due_date |-> NoStamp,
     created_date |-> Stamp(id * MsPerMinute)]

IdsOf(list) == {list[i].id : i \in 1..Len(list)}

\* todos.find((t) => t.id === todoId)
find(list, id) ==
    IF id \in IdsOf(list)
    THEN [found |-> TRUE,
          todo |-> list[CHOOSE i \in 1..Len(list) : list[i].id = id]]
    ELSE [found |-> FALSE, todo |-> PageTodo(0, <<>>, FALSE)]

\* prev.map((t) => t.id === todoId ? { ...t, completed: !t.completed } : t)
flip(list, id) ==
    [i \in 1..Len(list) |->
        IF list[i].id = id
        THEN [list[i] EXCEPT !.completed = ~list[i].completed]
        ELSE list[i]]

\* prev.filter((todo) => todo.id !== todoId)
without(list, id) == LET others(todo) == todo.id # id
                     IN  filter(list, others)

\* update({ completed }).eq('id', todoId) on the table
updateRow(rows, id, done) ==
    [i \in 1..Len(rows) |->
        IF rows[i].id = id THEN [rows[i] EXCEPT !.completed = done]
        ELSE rows[i]]

\* the id the table gives the next inserted row: one never seen before
NewId ==
    LET seen == IdsOf(stored) \cup IdsOf(pageTodos)
                    \cup {c.id : c \in calls}
                    \cup UNION {IdsOf(c.data) : c \in calls}
        Max(S) == IF S = {} THEN 0 ELSE CHOOSE x \in S : \A y \in S : y <= x
    IN  Max(seen) + 1

\* insert({...}): the newest row comes first under
\* order('created_date', { ascending: false })
insertRow(rows, id, input) == <<PageTodo(id, input.title, FALSE)>> \o rows

\* ---- TodoList and its cards ----
NoCard == [mounted |-> FALSE, isToggling |-> FALSE, isDeleting |-> FALSE]
FreshCard == [mounted |-> TRUE, isToggling |-> FALSE, isDeleting |-> FALSE]

\* the todos TodoList renders cards for: none under the error alert or the
\* spinner
Listed(list, loading, failed) ==
    IF failed \/ loading THEN <<>>
    ELSE filteredAndSortedTodos(list, searchQuery, statusFilter,
                                priorityFilters, sortBy, engine)

\* the card of id is the same component instance before and after a
\* render: its todo stayed in the same section (active or completed)
SameCard(id, before, after) ==
    /\ id \in IdsOf(before)
    /\ id \in IdsOf(after)
    /\ find(before, id).todo.completed = find(after, id).todo.completed

\* the cards after a render; set holds the state the handlers have set
TodoList(set, before, after) ==
    [id \in PageIds |->
        IF id \notin IdsOf(after) THEN NoCard
        ELSE IF SameCard(id, before, after) /\ set[id].mounted THEN set[id]
        ELSE FreshCard]

\* the calls after a render: a call whose card was unmounted has lost it
Awaiting(pending, before, after) ==
    {[c EXCEPT !.card = c.card /\ SameCard(c.id, before, after)]
         : c \in pending}

FreeSlot == CHOOSE n \in Slots : \A c \in calls : c.slot # n

NoInput == [title |-> <<>>]

Call(kind, id, value, input) ==
    [slot |-> FreeSlot, kind |-> kind, id |-> id, value |-> value,
     input |-> input, stage |-> "sent", ok |-> FALSE, data |-> <<>>,
     card |-> kind # "submit"]

\* a render of the list after the page's state changed
Rerender(set, pending) ==
    LET before == Listed(pageTodos, isLoading, pageError)
        after == Listed(pageTodos', isLoading', pageError')
    IN  /\ cards' = TodoList(set, before, after)
        /\ calls' = Awaiting(pending, before, after)

\* everything the page's handlers leave alone
besidesPage == <<controlVars, authVars, analysisVars, tzOffset, textVars,
                 repairVars, handlerVars, summaryVars>>

\* TodoCard.handleToggle and HomePage.handleToggle up to the await
CardToggle(id) ==
    /\ Cardinality(calls) < MaxCalls
    /\ cards[id].mounted
    /\ ~cards[id].isToggling
    /\ ~cards[id].isDeleting
    /\ find(pageTodos, id).found
    /\ pageTodos' = flip(pageTodos, id)
    /\ UNCHANGED <<isLoading, pageError, stored, form, besidesPage>>
    /\ Rerender([cards EXCEPT ![id].isToggling = TRUE],
                calls \cup {Call("toggle", id,
                                 ~find(pageTodos, id).todo.completed,
                                 NoInput)})

\* TodoCard.handleDelete and HomePage.handleDelete up to the await; the
\* user answers the confirm() dialog
CardDelete(id, confirmed) ==
    /\ cards[id].mounted
    /\ ~cards[id].isDeleting
    /\ confirmed => Cardinality(calls) < MaxCalls
    /\ pageTodos' = IF confirmed THEN without(pageTodos, id) ELSE pageTodos
    /\ UNCHANGED <<isLoading, pageError, stored, form, besidesPage>>
    /\ Rerender([cards EXCEPT ![id].isDeleting = TRUE],
                IF confirmed
                THEN calls \cup {Call("delete", id, FALSE, NoInput)}
                ELSE calls)

\* the table processes an update, a delete or an insert, or fails to
Storage(c, ok) ==
    /\ c \in calls
    /\ c.stage = "sent"
    /\ c.kind = "submit" /\ ok => NewId \in PageIds
    /\ stored' = IF ~ok THEN stored
                 ELSE IF c.kind = "toggle"
                 THEN updateRow(stored, c.id, c.value)
                 ELSE IF c.kind = "delete" THEN without(stored, c.id)
                 ELSE insertRow(stored, NewId, c.input)
    /\ calls' = (calls \ {c}) \cup {[c EXCEPT !.stage = "replied",
                                              !.ok = ok]}
    /\ UNCHANGED <<pageTodos, isLoading, pageError, cards, form,
                   besidesPage>>

\* the fields of TodoForm after its reset in add mode
resetForm(f) ==
    [f EXCEPT !.title = <<>>, !.description = <<>>,
              !.dueDate = NoStamp, !.priority = "medium",
              !.categories = <<>>]

\* TodoForm.handleSubmit after `await onSubmit(formData)` resolved
afterSubmit(f, c) == resetForm(f)

\* what the awaiting component does when the handler's promise resolves:
\* TodoCard.handleToggle's finally, TodoCard.handleDelete (nothing), or
\* TodoForm.handleSubmit's reset
Resolved(c) ==
    /\ form' = IF c.kind = "submit" THEN afterSubmit(form, c) ELSE form
    /\ Rerender(IF c.kind = "toggle" /\ c.card
                THEN [cards EXCEPT ![c.id].isToggling = FALSE]
                ELSE cards,
                calls \ {c})

\* fetchTodos up to its await; a handler without a user returns at once
fetchTodos(c) ==
    IF authUser = "null"
    THEN /\ UNCHANGED <<pageTodos, isLoading, pageError>>
         /\ Resolved(c)
    ELSE /\ isLoading' = TRUE
         /\ pageError' = FALSE
         /\ UNCHANGED <<pageTodos, form>>
         /\ Rerender(cards, (calls \ {c})
                                \cup {[c EXCEPT !.stage = "fetching"]})

\* the handler resumes after its storage call: handleToggle and
\* handleDelete are done on success and reload on failure, handleSubmit
\* reloads on success and only alerts on failure
Replied(c) ==
    /\ c \in calls
    /\ c.stage = "replied"
    /\ UNCHANGED <<stored, besidesPage>>
    /\ IF (c.kind = "submit") = c.ok
       THEN fetchTodos(c)
       ELSE /\ UNCHANGED <<pageTodos, isLoading, pageError>>
            /\ Resolved(c)

\* the table answers the select of fetchTodos, or fails to
Select(c, ok) ==
    /\ c \in calls
    /\ c.stage = "fetching"
    /\ calls' = (calls \ {c})
                    \cup {[c EXCEPT !.stage = "fetched", !.ok = ok,
                                    !.data = IF ok THEN stored ELSE <<>>]}
    /\ UNCHANGED <<pageTodos, isLoading, pageError, stored, cards, form,
                   besidesPage>>

\* fetchTodos after its await, and the handler that awaited it
Fetched(c) ==
    /\ c \in calls
    /\ c.stage = "fetched"
    /\ pageTodos' = IF c.ok THEN c.data ELSE pageTodos
    /\ pageError' = IF c.ok THEN pageError ELSE TRUE
    /\ isLoading' = FALSE
    /\ UNCHANGED <<stored, besidesPage>>
    /\ Resolved(c)

\* ---- TodoForm (inline, add mode) ----
FormTitleLimit == 200

\* what the user can have typed into the form
FormEntries ==
    {[title |-> <<Run(" ", 1), Run("a", 2)>>,
      description |-> <<Run("b", 1)>>, dueDate |-> Stamp(MsPerDay),
      priority |-> "high", categories |-> <<"work">>],
     [title |-> <<Run(" ", 2)>>, description |-> <<>>,
      dueDate |-> NoStamp, priority |-> "medium", categories |-> <<>>],
     [title |-> <<Run("a", FormTitleLimit + 1)>>, description |-> <<>>,
      dueDate |-> NoStamp, priority |-> "low", categories |-> <<>>]}

Fields(f) == [title |-> f.title, description |-> f.description,
              dueDate |-> f.dueDate, priority |-> f.priority,
              categories |-> f.categories]

\* the user fills in the form
Type(entry) ==
    /\ Fields(form) # entry
    /\ form' = [title |-> entry.title, description |-> entry.description,
                dueDate |-> entry.dueDate, priority |-> entry.priority,
                categories |-> entry.categories, error |-> form.error]
    /\ UNCHANGED <<pageTodos, isLoading, pageError, stored, calls, cards,
                   besidesPage>>

\* TodoForm.handleSubmit and HomePage.handleSubmit up to the await
Submit ==
    /\ Fields(form) \in FormEntries
    /\ IF trim(form.title) = <<>>
       THEN form' = [form EXCEPT !.error = "empty"] /\ UNCHANGED calls
       ELSE IF StrLen(form.title) > FormTitleLimit
       THEN form' = [form EXCEPT !.error = "long"] /\ UNCHANGED calls
       ELSE /\ Cardinality(calls) < MaxCalls
            /\ form' = [form EXCEPT !.error = "null"]
            /\ calls' = calls
                   \cup {Call("submit", 0, FALSE,
                              [title |-> trim(form.title)])}
    /\ form' # form \/ calls' # calls
    /\ UNCHANGED <<pageTodos, isLoading, pageError, stored, cards,
                   besidesPage>>

(***************************************************************************)
(* Specification of the page                                               *)
(***************************************************************************)
\* the rows the table can hold at the start, newest first
PageRows ==
    UNION {{[i \in 1..n |-> PageTodo(n + 1 - i, <<Run("a", 1)>>, done[i])]
                : done \in [1..n -> BOOLEAN]}
               : n \in 0..MaxPageTodos}

\* a signed-in user looks at the page after its first fetchTodos
PageInit ==
    /\ tzOffset = 0
    /\ stored \in PageRows
    /\ pageTodos = stored
    /\ searchQuery = <<>>
    /\ statusFilter = "all"
    /\ priorityFilters = {}
    /\ sortBy = "created_date"
    /\ engine = "v8"
    /\ isLoading = FALSE
    /\ pageError = FALSE
    /\ calls = {}
    /\ cards = [id \in PageIds |->
                   IF id \in IdsOf(stored) THEN FreshCard ELSE NoCard]
    /\ form = InitialForm
    /\ pathname = "/"
    /\ authUser = "user"
    /\ authLoading = FALSE
    /\ lookup = {}
    /\ signedIn = TRUE
    /\ redirects = <<>>

Toggle == \E id \in PageIds : CardToggle(id)
Delete == \E id \in PageIds : \E confirmed \in BOOLEAN :
              CardDelete(id, confirmed)
StorageAnswers == \E c \in calls : \E ok \in BOOLEAN : Storage(c, ok)
HandlerResumes == \E c \in calls : Replied(c)
SelectAnswers == \E c \in calls : \E ok \in BOOLEAN : Select(c, ok)
FetchResumes == \E c \in calls : Fetched(c)
Typing == \E entry \in FormEntries : Type(entry)

PageSpecInit ==
    /\ PageInit /\ AnalysisIdle
    /\ TextIdle /\ RepairIdle /\ HandlerIdle /\ SummaryIdle

\* the user works with the cards of the list
PageNext ==
    \/ Toggle
    \/ Delete
    \/ StorageAnswers
    \/ HandlerResumes
    \/ SelectAnswers
    \/ FetchResumes

PageSpec == PageSpecInit /\ [][PageNext]_vars

\* the user works with the form
FormNext ==
    \/ Typing
    \/ Submit
    \/ StorageAnswers
    \/ HandlerResumes
    \/ SelectAnswers
    \/ FetchResumes

FormSpec == PageSpecInit /\ [][FormNext]_vars

(***************************************************************************)
(* Claims about the page                                                   *)
(***************************************************************************)
Flags(list) == {<<list[i].id, list[i].completed>> : i \in 1..Len(list)}

\* C25: once no handler call is in flight (and the last reload did not
\* fail), the local list holds the stored todo ids with the stored
\* completed flags
C25_LocalEqualsStored ==
    (calls = {} /\ ~pageError) => Flags(pageTodos) = Flags(stored)

\* C29: a mounted card is in its deleting state only while a delete of its
\* todo is in flight
C29_DeletingOnlyDuringDelete ==
    \A id \in PageIds :
        (cards[id].mounted /\ cards[id].isDeleting)
            => \E c \in calls : c.kind = "delete" /\ c.id = id

\* C30: a step in which handleSubmit returns after a failed insert leaves
\* the fields of the form as the user entered them
C30_FieldsKeptWhenInsertFails ==
    [][\A c \in calls :
           (c.kind = "submit" /\ c.stage = "replied" /\ ~c.ok
                /\ c \notin calls')
               => Fields(form') = Fields(form)]_vars

====
